---- MODULE Spec2Model ----
(***************************************************************************)
(* Address spaces (MemorySet), mapped regions (MapArea) and the page table *)
(* of the rCore-style kernel in os/src/mm.                                  *)
(*                                                                         *)
(* Addresses are scaled: a page holds PAGE_SIZE bytes and the virtual      *)
(* address space holds the pages 0 .. TopVPN.  The trampoline is the top   *)
(* page and the trap context the page below it, as in os/src/config.rs.    *)
(* A panic of the kernel (an assert!, an unwrap of Err) ends the run: the  *)
(* action that would panic is not enabled.                                 *)
(***************************************************************************)
EXTENDS Integers, Sequences, FiniteSets, TLC

\* ------------------------------------------------------------------ bounds
\* bytes per page (config::PAGE_SIZE, scaled down)
PAGE_SIZE == 2
\* number of the highest virtual page, the trampoline page
TopVPN == 4
\* virtual pages served by one leaf table of the page table (512, scaled down)
DirSpan == 3
\* physical frames handed out by the frame allocator: 1 .. NumFrames
NumFrames == 6
\* areas added to a MemorySet at most, beyond those of its construction
MaxAreas == 2
\* operations applied to a MemorySet at most
MaxOps == 3
NumApp == 6
MaxTime == 2
\* length of the array sys_task_info fills (config::MAX_SYSCALL_NUM, scaled down)
MAX_SYSCALL_NUM == 2
\* syscall ids handed to syscall_counter: 0 .. MaxSyscallId
MaxSyscallId == 2
\* width of a counter of syscall_times in bits (u32, scaled down)
CounterBits == 2
\* calls of syscall_counter at most
MaxCalls == 4
\* bytes of a kernel stack (scaled down: the stacks of three tasks lie below
\* the trampoline page)
KERNEL_STACK_SIZE == 1
\* longest link list
MaxLinks == 2
\* most OSInodes open at a time
MaxInodes == 1

\* ------------------------------------------------------------------ layout
TRAMPOLINE == TopVPN * PAGE_SIZE
TRAP_CONTEXT_BASE == TRAMPOLINE - PAGE_SIZE
USER_STACK_SIZE == PAGE_SIZE
\* the size of usize: the trampoline page is the last page of the address space
UsizeSpan == TRAMPOLINE + PAGE_SIZE

VPNs == 0 .. TopVPN
PPNs == 1 .. NumFrames
\* physical page of the trampoline code (strampoline), not a pool frame
TrampolinePPN == 0

Min(S) == CHOOSE x \in S : \A y \in S : x <= y

\* sequencing of two steps: the value v of the first step, computed once, is
\* handed to the rest of the computation
Let(v, In(_)) == CHOOSE y \in {In(x) : x \in {v}} : TRUE

\* ----------------------------------------------------------- address.rs
\* VirtAddr::floor and VirtAddr::ceil
floor(va) == va \div PAGE_SIZE
ceil(va) == (va + PAGE_SIZE - 1) \div PAGE_SIZE

\* VPNRange: the half-open range [start, end)
VPNRange_new(s, e) == [start |-> s, end |-> e]
VPNRange_new_by_len(s, len) == [start |-> s, end |-> s + len]
RangeSet(r) == {v \in r.start .. (r.end - 1) : TRUE}
is_empty(r) == r.start >= r.end
is_contains(r, vpn) == r.start <= vpn /\ vpn < r.end
intersection(r, o) ==
    LET s == IF r.start >= o.start THEN r.start ELSE o.start
        e == IF r.end <= o.end THEN r.end ELSE o.end
    IN IF s < e THEN VPNRange_new(s, e) ELSE VPNRange_new(s, s)
intersects(r, o) == RangeSet(r) \cap RangeSet(o) # {}
Clamp(r, x) == IF x < r.start THEN r.start ELSE IF x > r.end THEN r.end ELSE x
\* exclude: (the part of r left of o, the part right of o, the part inside o)
exclude(r, o) ==
    LET a == Clamp(r, o.start)
        b == Clamp(r, IF o.end < o.start THEN o.start ELSE o.end)
    IN << VPNRange_new(r.start, a), VPNRange_new(b, r.end), VPNRange_new(a, b) >>

\* ---------------------------------------------------- frame_allocator.rs
\* frame_alloc: a free frame, or 0 (None) when the pool is exhausted
frame_alloc(ms) == IF ms.free = {} THEN 0 ELSE Min(ms.free)
Take(ms, f) == [ms EXCEPT !.free = @ \ {f}]
\* drop of FrameTracker values: the frames return to the pool
Dealloc(ms, fs) == [ms EXCEPT !.free = @ \cup fs]

\* --------------------------------------------------------- page_table.rs
NoPTE == [valid |-> FALSE, ppn |-> 0, flags |-> {}]
DirOf(vpn) == vpn \div DirSpan

PageTable_new(ms) ==
    IF frame_alloc(ms) = 0 THEN [res |-> "MemoryNotEnough", ms |-> ms]
    ELSE LET f == frame_alloc(ms)
         IN [res |-> "Ok",
             ms |-> [Take(ms, f) EXCEPT
                       !.pt = [entries |-> [v \in VPNs |-> NoPTE], dirs |-> {},
                               frames |-> {f}]]]

PageTable_map(ms, vpn, ppn, flags) ==
    LET needDir == DirOf(vpn) \notin ms.pt.dirs
        f == frame_alloc(ms)
        m1 == IF needDir /\ f # 0
              THEN [Take(ms, f) EXCEPT !.pt.dirs = @ \cup {DirOf(vpn)},
                                       !.pt.frames = @ \cup {f}]
              ELSE ms
    IN IF needDir /\ f = 0 THEN [res |-> "MemoryNotEnough", ms |-> ms]
       ELSE IF m1.pt.entries[vpn].valid THEN [res |-> "PageAlreadyAlloc", ms |-> m1]
       ELSE [res |-> "Ok",
             ms |-> [m1 EXCEPT !.pt.entries[vpn] =
                        [valid |-> TRUE, ppn |-> ppn, flags |-> flags]]]

PageTable_unmap(ms, vpn) ==
    IF DirOf(vpn) \notin ms.pt.dirs THEN [res |-> "DirPageInvalid", ms |-> ms]
    ELSE IF ~ms.pt.entries[vpn].valid THEN [res |-> "PageInvalid", ms |-> ms]
    ELSE [res |-> "Ok", ms |-> [ms EXCEPT !.pt.entries[vpn] = NoPTE]]

PageTable_translate(ms, vpn) ==
    IF DirOf(vpn) \notin ms.pt.dirs THEN [res |-> "DirPageInvalid", pte |-> NoPTE]
    ELSE IF ~ms.pt.entries[vpn].valid THEN [res |-> "PageInvalid", pte |-> NoPTE]
    ELSE [res |-> "Ok", pte |-> ms.pt.entries[vpn]]

\* ------------------------------------------------------- memory_area.rs
Remove(f, k) == [x \in DOMAIN f \ {k} |-> f[x]]
Insert(f, k, v) == [x \in DOMAIN f \cup {k} |-> IF x = k THEN v ELSE f[x]]
Restrict(f, S) == [x \in DOMAIN f \cap S |-> f[x]]
Frames(a) == {a.data_frame[v] : v \in DOMAIN a.data_frame}

MapArea_new(start_va, end_va, map_type, map_perm) ==
    [vpn_range |-> VPNRange_new(floor(start_va), ceil(end_va)),
     data_frame |-> << >>, map_type |-> map_type, map_permission |-> map_perm]

\* split with the comparison `i <= vpn`: the frame of the page at the split point
\* goes to the left part
split_le(a, vpn) ==
    LET other == [vpn_range |-> VPNRange_new(vpn, vpn), data_frame |-> << >>,
                  map_type |-> a.map_type, map_permission |-> a.map_permission]
    IN IF vpn <= a.vpn_range.start THEN << other, a >>
       ELSE IF vpn >= a.vpn_range.end THEN << a, other >>
       ELSE << [a EXCEPT !.vpn_range = VPNRange_new(a.vpn_range.start, vpn),
                         !.data_frame = Restrict(a.data_frame,
                                          {i \in DOMAIN a.data_frame : i <= vpn})],
               [a EXCEPT !.vpn_range = VPNRange_new(vpn, a.vpn_range.end),
                         !.data_frame = Restrict(a.data_frame,
                                          {i \in DOMAIN a.data_frame : ~(i <= vpn)})] >>

\* split that gives the right part an empty frame map
split_right_empty(a, vpn) ==
    LET other == [vpn_range |-> VPNRange_new(vpn, vpn), data_frame |-> << >>,
                  map_type |-> a.map_type, map_permission |-> a.map_permission]
    IN IF vpn <= a.vpn_range.start THEN << other, a >>
       ELSE IF vpn >= a.vpn_range.end THEN << a, other >>
       ELSE << [a EXCEPT !.vpn_range = VPNRange_new(a.vpn_range.start, vpn),
                         !.data_frame = Restrict(a.data_frame,
                                          {i \in DOMAIN a.data_frame : i < vpn})],
               [a EXCEPT !.vpn_range = VPNRange_new(vpn, a.vpn_range.end),
                         !.data_frame = << >>] >>

\* split whose right part starts one page after the split point
split_skip(a, vpn) ==
    LET other == [vpn_range |-> VPNRange_new(vpn, vpn), data_frame |-> << >>,
                  map_type |-> a.map_type, map_permission |-> a.map_permission]
    IN IF vpn <= a.vpn_range.start THEN << other, a >>
       ELSE IF vpn >= a.vpn_range.end THEN << a, other >>
       ELSE << [a EXCEPT !.vpn_range = VPNRange_new(a.vpn_range.start, vpn),
                         !.data_frame = Restrict(a.data_frame,
                                          {i \in DOMAIN a.data_frame : i < vpn})],
               [a EXCEPT !.vpn_range = VPNRange_new(vpn + 1, a.vpn_range.end),
                         !.data_frame = Restrict(a.data_frame,
                                          {i \in DOMAIN a.data_frame : ~(i < vpn + 1)})] >>

split(a, vpn) ==
    LET other == [vpn_range |-> VPNRange_new(vpn, vpn), data_frame |-> << >>,
                  map_type |-> a.map_type, map_permission |-> a.map_permission]
    IN IF vpn <= a.vpn_range.start THEN << other, a >>
       ELSE IF vpn >= a.vpn_range.end THEN << a, other >>
       ELSE << [a EXCEPT !.vpn_range = VPNRange_new(a.vpn_range.start, vpn),
                         !.data_frame = Restrict(a.data_frame,
                                          {i \in DOMAIN a.data_frame : i < vpn})],
               [a EXCEPT !.vpn_range = VPNRange_new(vpn, a.vpn_range.end),
                         !.data_frame = Restrict(a.data_frame,
                                          {i \in DOMAIN a.data_frame : ~(i < vpn)})] >>

\* check_page_raw that keeps the frame when the page-table insertion fails
check_page_raw_keep(a, ms, vpn) ==
    IF vpn \notin DOMAIN a.data_frame
    THEN LET f == frame_alloc(ms)
         IN IF f = 0 THEN [res |-> "MemoryNotEnough", a |-> a, ms |-> ms]
            ELSE Let(PageTable_map(Take(ms, f), vpn, f, a.map_permission), LAMBDA r :
                 [res |-> r.res, a |-> [a EXCEPT !.data_frame = Insert(@, vpn, f)],
                  ms |-> r.ms])
    ELSE [res |-> "Ok", a |-> a, ms |-> ms]

check_page_raw(a, ms, vpn) ==
    IF vpn \notin DOMAIN a.data_frame
    THEN LET f == frame_alloc(ms)
         IN IF f = 0 THEN [res |-> "MemoryNotEnough", a |-> a, ms |-> ms]
            ELSE Let(PageTable_map(Take(ms, f), vpn, f, a.map_permission), LAMBDA r :
                 IF r.res = "Ok"
                 THEN [res |-> "Ok", a |-> [a EXCEPT !.data_frame = Insert(@, vpn, f)],
                       ms |-> r.ms]
                 ELSE [res |-> r.res, a |-> a, ms |-> Dealloc(r.ms, {f})])
    ELSE [res |-> "Ok", a |-> a, ms |-> ms]

\* a loop over the pages lo .. hi - 1 that stops at the first error
RECURSIVE ForPages(_, _, _, _, _)
ForPages(Step(_, _, _), a, ms, lo, hi) ==
    IF lo >= hi THEN [res |-> "Ok", a |-> a, ms |-> ms]
    ELSE Let(Step(a, ms, lo), LAMBDA r :
         IF r.res # "Ok" THEN r ELSE ForPages(Step, r.a, r.ms, lo + 1, hi))

\* check_range that fills the requested range, not its part inside the area
check_range_requested(a, ms, vpn_range) ==
    IF a.map_type = "Identical" THEN [res |-> "Ok", a |-> a, ms |-> ms]
    ELSE ForPages(check_page_raw, a, ms, vpn_range.start, vpn_range.end)

check_range(a, ms, vpn_range) ==
    IF a.map_type = "Identical" THEN [res |-> "Ok", a |-> a, ms |-> ms]
    ELSE LET i == intersection(a.vpn_range, vpn_range)
         IN ForPages(check_page_raw, a, ms, i.start, i.end)

check_all_page(a, ms) == check_range(a, ms, a.vpn_range)

\* map_one that installs nothing
map_one_skip(a, ms, vpn) == [res |-> "Ok", a |-> a, ms |-> ms]

map_one(a, ms, vpn) ==
    IF a.map_type = "Identical"
    THEN Let(PageTable_map(ms, vpn, vpn, a.map_permission), LAMBDA r :
         [res |-> r.res, a |-> a, ms |-> r.ms])
    ELSE [res |-> "Ok", a |-> a, ms |-> ms]

\* unmap_one that takes the frame out of data_frame without releasing it
unmap_one_leak(a, ms, vpn) ==
    LET owned == a.map_type = "Framed" /\ vpn \in DOMAIN a.data_frame
        a1 == IF owned THEN [a EXCEPT !.data_frame = Remove(@, vpn)] ELSE a
    IN Let(PageTable_unmap(ms, vpn), LAMBDA r :
       [res |-> IF r.res \in {"Ok", "DirPageInvalid", "PageInvalid"} THEN "Ok" ELSE r.res,
        a |-> a1, ms |-> r.ms])

\* unmap_one that releases the frame and leaves the page-table entry in place
unmap_one_keep_pte(a, ms, vpn) ==
    LET owned == a.map_type = "Framed" /\ vpn \in DOMAIN a.data_frame
        a1 == IF owned THEN [a EXCEPT !.data_frame = Remove(@, vpn)] ELSE a
        m1 == IF owned THEN Dealloc(ms, {a.data_frame[vpn]}) ELSE ms
    IN [res |-> "Ok", a |-> a1, ms |-> m1]

\* unmap_one that hands on every error of PageTable::unmap
unmap_one_strict(a, ms, vpn) ==
    LET owned == a.map_type = "Framed" /\ vpn \in DOMAIN a.data_frame
        a1 == IF owned THEN [a EXCEPT !.data_frame = Remove(@, vpn)] ELSE a
        m1 == IF owned THEN Dealloc(ms, {a.data_frame[vpn]}) ELSE ms
    IN Let(PageTable_unmap(m1, vpn), LAMBDA r : [res |-> r.res, a |-> a1, ms |-> r.ms])

unmap_one(a, ms, vpn) ==
    LET owned == a.map_type = "Framed" /\ vpn \in DOMAIN a.data_frame
        a1 == IF owned THEN [a EXCEPT !.data_frame = Remove(@, vpn)] ELSE a
        m1 == IF owned THEN Dealloc(ms, {a.data_frame[vpn]}) ELSE ms
    IN Let(PageTable_unmap(m1, vpn), LAMBDA r :
       [res |-> IF r.res \in {"Ok", "DirPageInvalid", "PageInvalid"} THEN "Ok" ELSE r.res,
        a |-> a1, ms |-> r.ms])

map(a, ms) == ForPages(map_one, a, ms, a.vpn_range.start, a.vpn_range.end)

unmap(a, ms) == ForPages(unmap_one, a, ms, a.vpn_range.start, a.vpn_range.end)

narrow(a, ms, to) ==
    Let(ForPages(unmap_one, a, ms, to, a.vpn_range.end), LAMBDA r :
        IF r.res # "Ok" THEN r
        ELSE [r EXCEPT !.a.vpn_range = VPNRange_new(a.vpn_range.start, to)])

expand(a, ms, to) ==
    Let(ForPages(map_one, a, ms, a.vpn_range.end, to), LAMBDA r :
        IF r.res # "Ok" THEN r
        ELSE [r EXCEPT !.a.vpn_range = VPNRange_new(a.vpn_range.start, to)])

\* the loop of copy_data that writes every chunk to the frame of the first page
RECURSIVE CopyLoop_no_step(_, _, _, _)
CopyLoop_no_step(ms, data, start, current_vpn) ==
    LET len == Len(data)
        n == Min({len, start + PAGE_SIZE}) - start
        t == PageTable_translate(ms, current_vpn)
    IN IF t.res # "Ok" THEN [res |-> t.res, ms |-> ms]
       ELSE Let([ms EXCEPT !.mem[t.pte.ppn] =
                    [o \in 0 .. PAGE_SIZE - 1 |-> IF o < n THEN data[start + o + 1] ELSE @[o]]],
                LAMBDA m :
                IF start + PAGE_SIZE >= len THEN [res |-> "Ok", ms |-> m]
                ELSE CopyLoop_no_step(m, data, start + PAGE_SIZE, current_vpn))

\* the loop of copy_data: the chunk data[start .. min(len, start + PAGE_SIZE)) goes
\* to the head of the frame translate finds for current_vpn
RECURSIVE CopyLoop(_, _, _, _)
CopyLoop(ms, data, start, current_vpn) ==
    LET len == Len(data)
        n == Min({len, start + PAGE_SIZE}) - start
        t == PageTable_translate(ms, current_vpn)
    IN IF t.res # "Ok" THEN [res |-> t.res, ms |-> ms]
       ELSE Let([ms EXCEPT !.mem[t.pte.ppn] =
                    [o \in 0 .. PAGE_SIZE - 1 |-> IF o < n THEN data[start + o + 1] ELSE @[o]]],
                LAMBDA m :
                IF start + PAGE_SIZE >= len THEN [res |-> "Ok", ms |-> m]
                ELSE CopyLoop(m, data, start + PAGE_SIZE, current_vpn + 1))

\* pages = (data.len() - 1 + PAGE_SIZE) / PAGE_SIZE in usize: for an empty slice
\* the subtraction wraps and the sum wraps back to PAGE_SIZE - 1
copy_data_pages(data) ==
    (IF Len(data) = 0 THEN PAGE_SIZE - 1 ELSE Len(data) - 1 + PAGE_SIZE) \div PAGE_SIZE

\* data.len() - 1 in usize leaves the type for an empty slice: a build with
\* overflow checks panics there, a build without goes on with the wrapped value
copy_data_underflows(data, overflow_checks) == overflow_checks /\ Len(data) - 1 < 0

\* the two assertions of copy_data
copy_data_panics(a, data) ==
    \/ a.map_type # "Framed"
    \/ copy_data_pages(data) > Cardinality(RangeSet(a.vpn_range))

copy_data(a, ms, data) ==
    Let(check_range(a, ms, VPNRange_new_by_len(a.vpn_range.start, copy_data_pages(data))),
        LAMBDA r :
        IF r.res # "Ok" THEN r
        ELSE Let(CopyLoop(r.ms, data, 0, a.vpn_range.start), LAMBDA c :
             [res |-> c.res, a |-> r.a, ms |-> c.ms]))

\* drop of a MapArea: every frame it owns returns to the pool
DropArea(a, ms) == Dealloc(ms, Frames(a))

\* -------------------------------------------------------- memory_set.rs
\* A MemorySet with the frame allocator it draws from:
\*   [areas |-> Seq(MapArea), pt |-> PageTable, free |-> SUBSET PPNs,
\*    mem |-> the bytes of every physical page]
Ret(res, ms) == [res |-> res, ms |-> ms]

\* Option<&[u8]>: the data of a segment
None == [some |-> FALSE, data |-> << >>]
Some(data) == [some |-> TRUE, data |-> data]

new_bare(ms) ==
    Let(PageTable_new(ms), LAMBDA r :
        IF r.res # "Ok" THEN Ret(r.res, ms)
        ELSE Ret("Ok", [r.ms EXCEPT !.areas = << >>]))

push(ms, map_area, data) ==
    Let(map(map_area, ms), LAMBDA r1 :
    IF r1.res # "Ok" THEN Ret(r1.res, DropArea(r1.a, r1.ms))
    ELSE Let(check_all_page(r1.a, r1.ms), LAMBDA r2 :
    IF r2.res # "Ok" THEN Ret(r2.res, DropArea(r2.a, r2.ms))
    ELSE Let(IF ~data.some THEN r2 ELSE copy_data(r2.a, r2.ms, data.data), LAMBDA r3 :
    IF r3.res # "Ok" THEN Ret(r3.res, DropArea(r3.a, r3.ms))
    ELSE Ret("Ok", [r3.ms EXCEPT !.areas = Append(@, r3.a)]))))

push_lazy(ms, map_area, data) ==
    Let(map(map_area, ms), LAMBDA r1 :
    IF r1.res # "Ok" THEN Ret(r1.res, DropArea(r1.a, r1.ms))
    ELSE Let(IF ~data.some THEN r1 ELSE copy_data(r1.a, r1.ms, data.data), LAMBDA r3 :
    IF r3.res # "Ok" THEN Ret(r3.res, DropArea(r3.a, r3.ms))
    ELSE Ret("Ok", [r3.ms EXCEPT !.areas = Append(@, r3.a)])))

insert_framed_area(ms, start_va, end_va, permission) ==
    push(ms, MapArea_new(start_va, end_va, "Framed", permission), None)

insert_framed_area_lazy(ms, start_va, end_va, permission) ==
    push_lazy(ms, MapArea_new(start_va, end_va, "Framed", permission), None)

map_trampoline(ms) == PageTable_map(ms, floor(TRAMPOLINE), TrampolinePPN, {"R", "X"})

\* index of the first area satisfying P, or 0
Find(as, P(_)) ==
    LET I == {i \in 1 .. Len(as) : P(as[i])} IN IF I = {} THEN 0 ELSE Min(I)

\* transform that fills the whole area that contains vpn
transform_all(ms, vpn) ==
    LET i == Find(ms.areas, LAMBDA x : is_contains(x.vpn_range, vpn))
    IN IF i = 0 THEN [res |-> "NotInclude", ms |-> ms, pte |-> NoPTE]
       ELSE Let(check_all_page(ms.areas[i], ms), LAMBDA r :
            LET m == [r.ms EXCEPT !.areas[i] = r.a]
            IN IF r.res # "Ok" THEN [res |-> r.res, ms |-> m, pte |-> NoPTE]
               ELSE [res |-> PageTable_translate(m, vpn).res, ms |-> m,
                     pte |-> PageTable_translate(m, vpn).pte])

transform(ms, vpn) ==
    LET i == Find(ms.areas, LAMBDA x : is_contains(x.vpn_range, vpn))
    IN IF i = 0 THEN [res |-> "NotInclude", ms |-> ms, pte |-> NoPTE]
       ELSE Let(check_range(ms.areas[i], ms, VPNRange_new_by_len(vpn, 1)), LAMBDA r :
            LET m == [r.ms EXCEPT !.areas[i] = r.a]
            IN IF r.res # "Ok" THEN [res |-> r.res, ms |-> m, pte |-> NoPTE]
               ELSE [res |-> PageTable_translate(m, vpn).res, ms |-> m,
                     pte |-> PageTable_translate(m, vpn).pte])

shrink_to(ms, start, new_end) ==
    LET i == Find(ms.areas, LAMBDA x : x.vpn_range.start = floor(start))
    IN IF i = 0 THEN Ret("NotMatch", ms)
       ELSE Let(narrow(ms.areas[i], ms, ceil(new_end)), LAMBDA r :
            Ret(r.res, [r.ms EXCEPT !.areas[i] = r.a]))

append_to(ms, start, new_end) ==
    LET i == Find(ms.areas, LAMBDA x : x.vpn_range.start = floor(start))
    IN IF i = 0 THEN Ret("NotMatch", ms)
       ELSE Let(expand(ms.areas[i], ms, ceil(new_end)), LAMBDA r :
            Ret(r.res, [r.ms EXCEPT !.areas[i] = r.a]))

is_mapped(ms, range) ==
    \E i \in 1 .. Len(ms.areas) : intersects(ms.areas[i].vpn_range, range)

RECURSIVE SumRem(_, _)
SumRem(as, range) ==
    IF as = << >> THEN 0
    ELSE Cardinality(RangeSet(exclude(Head(as).vpn_range, range)[3]))
         + SumRem(Tail(as), range)

is_unmapped(ms, range) == SumRem(ms.areas, range) # Cardinality(RangeSet(range))

\* is_critical that knows the trampoline page alone
is_critical_trampoline(vpn) == vpn = floor(TRAMPOLINE)

is_critical(vpn) == vpn = floor(TRAMPOLINE) \/ vpn = floor(TRAP_CONTEXT_BASE)

\* map_memory without the overlap test
map_memory_unchecked(ms, start_va, end_va, permission) ==
    LET area == MapArea_new(start_va, end_va, "Framed", permission)
    IN IF \E x \in RangeSet(area.vpn_range) : is_critical(x)
       THEN Ret("CriticalArea", ms)
       ELSE push_lazy(ms, area, None)

\* map_memory with the overlap test before the critical-page test
map_memory_overlap_first(ms, start_va, end_va, permission) ==
    LET area == MapArea_new(start_va, end_va, "Framed", permission)
    IN IF is_mapped(ms, area.vpn_range) THEN Ret("ContainMapped", ms)
       ELSE IF \E x \in RangeSet(area.vpn_range) : is_critical(x)
       THEN Ret("CriticalArea", ms)
       ELSE push_lazy(ms, area, None)

map_memory(ms, start_va, end_va, permission) ==
    LET area == MapArea_new(start_va, end_va, "Framed", permission)
    IN IF \E x \in RangeSet(area.vpn_range) : is_critical(x)
       THEN Ret("CriticalArea", ms)
       ELSE IF is_mapped(ms, area.vpn_range) THEN Ret("ContainMapped", ms)
       ELSE push_lazy(ms, area, None)

\* the loop of unmap_memory over the areas taken out of the set: `rest` are the
\* areas not yet visited, ms.areas the areas pushed back so far
RECURSIVE UnmapAreas(_, _, _)
UnmapAreas(rest, ms, target_range) ==
    IF rest = << >> THEN Ret("Ok", ms)
    ELSE LET area == Head(rest)
             ex == exclude(area.vpn_range, target_range)
         IN IF is_empty(ex[3])
            THEN Let([ms EXCEPT !.areas = Append(@, area)], LAMBDA m :
                 UnmapAreas(Tail(rest), m, target_range))
            ELSE Let(split(area, ex[1].end), LAMBDA s1 :
                 Let(split(s1[2], ex[3].end), LAMBDA s2 :
                 LET larea == s1[1]
                     marea == s2[1]
                     rarea == s2[2]
                     mL == IF is_empty(larea.vpn_range) THEN DropArea(larea, ms)
                           ELSE [ms EXCEPT !.areas = Append(@, larea)]
                     mR == IF is_empty(rarea.vpn_range) THEN DropArea(rarea, mL)
                           ELSE [mL EXCEPT !.areas = Append(@, rarea)]
                 IN Let(unmap(marea, mR), LAMBDA r :
                    Let(DropArea(r.a, r.ms), LAMBDA mD :
                    IF r.res # "Ok"
                    THEN Ret(r.res, Dealloc(mD, UNION {Frames(Tail(rest)[k]) :
                                                        k \in 1 .. Len(Tail(rest))}))
                    ELSE UnmapAreas(Tail(rest), mD, target_range)))))

\* unmap_memory without the critical-page test
unmap_memory_unprotected(ms, start_va, end_va) ==
    LET target_range == VPNRange_new(floor(start_va), ceil(end_va))
    IN IF is_unmapped(ms, target_range) THEN Ret("ContainUnmapped", ms)
       ELSE UnmapAreas(ms.areas, [ms EXCEPT !.areas = << >>], target_range)

unmap_memory(ms, start_va, end_va) ==
    LET target_range == VPNRange_new(floor(start_va), ceil(end_va))
    IN IF \E x \in RangeSet(target_range) : is_critical(x)
       THEN Ret("CriticalArea", ms)
       ELSE IF is_unmapped(ms, target_range) THEN Ret("ContainUnmapped", ms)
       ELSE UnmapAreas(ms.areas, [ms EXCEPT !.areas = << >>], target_range)

\* from_elf: elf is the sequence of the program headers of the image
RECURSIVE LoadSegments(_, _, _)
LoadSegments(phs, ms, max_end_vpn) ==
    IF phs = << >> THEN [res |-> "Ok", ms |-> ms, max_end_vpn |-> max_end_vpn]
    ELSE LET ph == Head(phs)
             map_area == MapArea_new(ph.virtual_addr, ph.virtual_addr + ph.mem_size,
                                     "Framed", {"U"} \cup ph.flags)
         IN IF ph.type # "Load" THEN LoadSegments(Tail(phs), ms, max_end_vpn)
            ELSE Let(push(ms, map_area, Some(ph.data)), LAMBDA r :
                 IF r.res # "Ok"
                 THEN [res |-> r.res, ms |-> r.ms, max_end_vpn |-> max_end_vpn]
                 ELSE LoadSegments(Tail(phs), r.ms, map_area.vpn_range.end))

\* drop of a MemorySet: the frames of its areas and of its page table are freed
DropMemorySet(ms) ==
    [areas |-> << >>, pt |-> [entries |-> [v \in VPNs |-> NoPTE], dirs |-> {},
                                frames |-> {}],
     mem |-> ms.mem,
     free |-> ms.free \cup ms.pt.frames
              \cup UNION {Frames(ms.areas[k]) : k \in 1 .. Len(ms.areas)}]

from_elf(ms, elf) ==
    Let(new_bare(ms), LAMBDA r0 :
    IF r0.res # "Ok" THEN Ret(r0.res, ms)
    ELSE Let(map_trampoline(r0.ms), LAMBDA r1 :
    IF r1.res # "Ok" THEN Ret(r1.res, DropMemorySet(r1.ms))
    ELSE Let(LoadSegments(elf, r1.ms, 0), LAMBDA r2 :
    IF r2.res # "Ok" THEN Ret(r2.res, DropMemorySet(r2.ms))
    ELSE LET user_stack_bottom == r2.max_end_vpn * PAGE_SIZE + PAGE_SIZE
             user_stack_top == user_stack_bottom + USER_STACK_SIZE
         IN
         Let(push_lazy(r2.ms, MapArea_new(user_stack_bottom, user_stack_top, "Framed",
                                          {"R", "W", "U"}), None), LAMBDA r3 :
    IF r3.res # "Ok" THEN Ret(r3.res, DropMemorySet(r3.ms))
    ELSE Let(push_lazy(r3.ms, MapArea_new(user_stack_top, user_stack_top, "Framed",
                                          {"R", "W", "U"}), None), LAMBDA r4 :
    IF r4.res # "Ok" THEN Ret(r4.res, DropMemorySet(r4.ms))
    ELSE Let(push(r4.ms, MapArea_new(TRAP_CONTEXT_BASE, TRAMPOLINE, "Framed",
                                     {"R", "W"}), None), LAMBDA r5 :
    IF r5.res # "Ok" THEN Ret(r5.res, DropMemorySet(r5.ms))
    ELSE [res |-> "Ok", ms |-> r5.ms, user_stack_top |-> user_stack_top]))))))

\* ------------------------------------------------- syscall/process.rs
\* bit k of n
Bit(n, k) == (n \div (2 ^ k)) % 2 = 1

\* the bits of MapPermission: R = 1 << 1, W = 1 << 2, X = 1 << 3, U = 1 << 4
PermBit == [R |-> 1, W |-> 2, X |-> 3, U |-> 4]

\* MapPermission::from_bits(bits).unwrap(), on bits within R|W|X|U
MapPermission_from_bits(bits) == {f \in DOMAIN PermBit : Bit(bits, PermBit[f])}

\* TaskManager::map_memory and unmap_memory on the address space of the current
\* task: 0 when the MemorySet returns Ok, -1 otherwise
task_map_memory(ms, start_va, end_va, permission) ==
    Let(map_memory(ms, start_va, end_va, permission), LAMBDA r :
        [res |-> IF r.res = "Ok" THEN 0 ELSE -1, ms |-> r.ms])

task_unmap_memory(ms, start_va, end_va) ==
    Let(unmap_memory(ms, start_va, end_va), LAMBDA r :
        [res |-> IF r.res = "Ok" THEN 0 ELSE -1, ms |-> r.ms])

\* sys_mmap that does not look at the permission argument
sys_mmap_any_port(ms, start, len, port) ==
    IF start % PAGE_SIZE # 0 THEN [res |-> -1, ms |-> ms]
    ELSE task_map_memory(ms, start, start + len,
             MapPermission_from_bits(((port % 256) * 2) % 256) \cup {"U"})

sys_mmap(ms, start, len, port) ==
    IF start % PAGE_SIZE # 0 THEN [res |-> -1, ms |-> ms]
    ELSE IF port \div 8 # 0 \/ port % 8 = 0 THEN [res |-> -1, ms |-> ms]
    ELSE task_map_memory(ms, start, start + len,
             MapPermission_from_bits(((port % 256) * 2) % 256) \cup {"U"})

sys_munmap(ms, start, len) ==
    IF start % PAGE_SIZE # 0 THEN [res |-> -1, ms |-> ms]
    ELSE task_unmap_memory(ms, start, start + len)

\* the kernel sections in the order new_kernel pushes them: .text, .rodata,
\* .data, .bss and the physical memory above the kernel; k holds the linker symbols
KernelSections(k) ==
    << [start |-> k.stext, end |-> k.etext, perm |-> {"R", "X"}],
       [start |-> k.srodata, end |-> k.erodata, perm |-> {"R"}],
       [start |-> k.sdata, end |-> k.edata, perm |-> {"R", "W"}],
       [start |-> k.sbss_with_stack, end |-> k.ebss, perm |-> {"R", "W"}],
       [start |-> k.ekernel, end |-> k.MEMORY_END, perm |-> {"R", "W"}] >>

\* the push_lazy(..).unwrap() calls of new_kernel from section i on
RECURSIVE PushSections(_, _, _)
PushSections(ms, secs, i) ==
    IF i > Len(secs) THEN Ret("Ok", ms)
    ELSE Let(push_lazy(ms, MapArea_new(secs[i].start, secs[i].end, "Identical",
                                       secs[i].perm), None), LAMBDA r :
         IF r.res # "Ok" THEN Ret("panic", r.ms)
         ELSE PushSections(r.ms, secs, i + 1))

\* new_kernel: a failure of new_bare, map_trampoline or push_lazy panics
new_kernel(ms, k) ==
    Let(new_bare(ms), LAMBDA r0 :
    IF r0.res # "Ok" THEN Ret("panic", r0.ms)
    ELSE Let(map_trampoline(r0.ms), LAMBDA r1 :
    IF r1.res # "Ok" THEN Ret("panic", r1.ms)
    ELSE PushSections(r1.ms, KernelSections(k), 1)))

\* remap_test: the page in the middle of .text and of .rodata is not writable,
\* the one in the middle of .data is not executable; a failed unwrap or
\* assertion panics
remap_test(ms, k) ==
    LET mid_text == PageTable_translate(ms, floor((k.stext + k.etext) \div 2))
        mid_rodata == PageTable_translate(ms, floor((k.srodata + k.erodata) \div 2))
        mid_data == PageTable_translate(ms, floor((k.sdata + k.edata) \div 2))
    IN IF /\ mid_text.res = "Ok" /\ "W" \notin mid_text.pte.flags
          /\ mid_rodata.res = "Ok" /\ "W" \notin mid_rodata.pte.flags
          /\ mid_data.res = "Ok" /\ "X" \notin mid_data.pte.flags
       THEN "passed" ELSE "panic"

\* ------------------------------------------------------------ task/task.rs
\* TaskInfo::new: not dispatched, start time 0
TaskInfo_new == [is_dispatched |-> FALSE, start_time |-> 0]

\* a task control block as the loader leaves it
TaskControlBlock_new(status) == [task_status |-> status, task_info |-> TaskInfo_new]

\* dispatch that stamps the start time on every call
dispatch_always(info, now) == [is_dispatched |-> TRUE, start_time |-> now]

\* TaskInfo::dispatch; now is the value get_time_ms() returns
dispatch(info, now) ==
    IF ~info.is_dispatched THEN [is_dispatched |-> TRUE, start_time |-> now]
    ELSE info

\* ------------------------------------------------------------- task/mod.rs
\* Option<usize>
NoTask == [some |-> FALSE, id |-> 0]
SomeTask(id) == [some |-> TRUE, id |-> id]

\* the ids (current + 1 .. current + num_app + 1).map(|id| id % num_app), in order
ScanOrder(current) == [k \in 1 .. NumApp |-> (current + k) % NumApp]

\* find_next_task that scans the ids from 0 up
find_next_task_from_zero(tm) ==
    LET hits == {k \in 1 .. NumApp : tm.tasks[k - 1].task_status = "Ready"}
    IN IF hits = {} THEN NoTask
       ELSE SomeTask((CHOOSE k \in hits : \A h \in hits : k <= h) - 1)

\* find_next_task that takes the first task of the scan that is not Running
find_next_task_not_running(tm) ==
    LET ids == ScanOrder(tm.current_task)
        hits == {k \in 1 .. NumApp : tm.tasks[ids[k]].task_status # "Running"}
    IN IF hits = {} THEN NoTask
       ELSE SomeTask(ids[CHOOSE k \in hits : \A h \in hits : k <= h])

\* find_next_task that stops the scan before it comes back to the current task
find_next_task_others(tm) ==
    LET ids == ScanOrder(tm.current_task)
        hits == {k \in 1 .. NumApp - 1 : tm.tasks[ids[k]].task_status = "Ready"}
    IN IF hits = {} THEN NoTask
       ELSE SomeTask(ids[CHOOSE k \in hits : \A h \in hits : k <= h])

\* find_next_task: the first id of the scan whose task is Ready
find_next_task(tm) ==
    LET ids == ScanOrder(tm.current_task)
        hits == {k \in 1 .. NumApp : tm.tasks[ids[k]].task_status = "Ready"}
    IN IF hits = {} THEN NoTask
       ELSE SomeTask(ids[CHOOSE k \in hits : \A h \in hits : k <= h])

\* run_first_task: task 0 becomes Running and is dispatched
run_first_task(tm, now) ==
    [tm EXCEPT !.tasks[0].task_status = "Running",
               !.tasks[0].task_info = dispatch(@, now)]

mark_current_suspended(tm) ==
    [tm EXCEPT !.tasks[tm.current_task].task_status = "Ready"]

mark_current_exited(tm) ==
    [tm EXCEPT !.tasks[tm.current_task].task_status = "Exited"]

\* run_next_task: the next Ready task becomes Running and current; with no
\* Ready task the kernel panics with "All applications completed!"
run_next_task(tm, now) ==
    LET next == find_next_task(tm)
    IN IF next.some
       THEN [res |-> "Ok",
             tm |-> [tm EXCEPT !.tasks[next.id].task_status = "Running",
                               !.current_task = next.id,
                               !.tasks[next.id].task_info = dispatch(@, now)]]
       ELSE [res |-> "panic", tm |-> tm]

\* suspend_current_and_run_next that does not mark the current task
suspend_unmarked(tm, now) == run_next_task(tm, now)

suspend_current_and_run_next(tm, now) ==
    run_next_task(mark_current_suspended(tm), now)

exit_current_and_run_next(tm, now) ==
    run_next_task(mark_current_exited(tm), now)

\* ------------------------------------------------------- task/processor.rs
\* the execution contexts: the kernel stack of task i is context i; the idle
\* control flow of run_tasks, and the _unused context of run_first_task, is IdleCx
IdleCx == NumApp

\* the UPSafeCell cells: the inner cell of task i is cell i
ManagerCell == NumApp
ProcessorCell == NumApp + 1

\* exclusive_access that hands out a second guard on a cell
exclusive_access_shared(c, cell, pc) == [c EXCEPT !.held = @ \cup {cell}, !.pc = pc]

\* UPSafeCell::exclusive_access, then on to pc: a cell still held panics
exclusive_access(c, cell, pc) ==
    IF cell \in c.held THEN [c EXCEPT !.pc = "panic"]
    ELSE [c EXCEPT !.held = @ \cup {cell}, !.pc = pc]

\* drop that leaves the guard alive
forget_guard(c, cell, pc) == [c EXCEPT !.pc = pc]

\* drop(guard), then on to pc
drop_guard(c, cell, pc) == [c EXCEPT !.held = @ \ {cell}, !.pc = pc]

\* __switch(save, restore): the running context is saved, restore runs on; the
\* idle context resumes at the top of the loop of run_tasks, a task where it
\* returns towards user mode
switch(c, save, restore) ==
    [c EXCEPT !.sw = [some |-> TRUE, save |-> save, restore |-> restore,
                      held |-> c.held, from |-> c.pc],
              !.on = restore,
              !.pc = IF restore = IdleCx THEN "run_tasks" ELSE "resume"]

\* schedule that restores the context of a Ready task, not the idle one
schedule_to_task(c, ready) == IF ready = {} THEN c.on ELSE Min(ready)

\* the context schedule restores: idle_task_cx
schedule_to(c, ready) == IdleCx

\* the steps below take and return k = [c |-> the control flow, tm |-> the
\* task manager]; a step out of place leaves k as it is

\* TaskManager::run_first_task, statement by statement
run_first_task_step(k, now) ==
    CASE k.c.pc = "run_first_task" ->
             [k EXCEPT !.c = exclusive_access(@, ManagerCell, "rft_mark")]
      [] k.c.pc = "rft_mark" ->
             [k EXCEPT !.tm = run_first_task(@, now), !.c.pc = "rft_drop"]
      [] k.c.pc = "rft_drop" ->
             [k EXCEPT !.c = drop_guard(@, ManagerCell, "rft_switch")]
      [] k.c.pc = "rft_switch" -> [k EXCEPT !.c = switch(@, IdleCx, 0)]
      [] OTHER -> k

\* TaskManager::run_next_task, statement by statement; find_next_task takes
\* and drops its own guard
run_next_task_step(k, now) ==
    CASE k.c.pc = "run_next_task" ->
             IF ManagerCell \in k.c.held THEN [k EXCEPT !.c.pc = "panic"]
             ELSE IF find_next_task(k.tm).some
             THEN [k EXCEPT !.c = exclusive_access([@ EXCEPT !.next = find_next_task(k.tm).id],
                                                   ManagerCell, "rnt_mark")]
             ELSE [k EXCEPT !.c.pc = "completed"]
      [] k.c.pc = "rnt_mark" ->
             [k EXCEPT !.tm = run_next_task(@, now).tm, !.c.pc = "rnt_drop"]
      [] k.c.pc = "rnt_drop" ->
             [k EXCEPT !.c = drop_guard(@, ManagerCell, "rnt_switch")]
      [] k.c.pc = "rnt_switch" -> [k EXCEPT !.c = switch(@, k.c.on, k.c.next)]
      [] OTHER -> k

\* run_tasks, statement by statement; task is what fetch_task returns, a
\* Ready task or none
run_tasks_step(k, task) ==
    CASE k.c.pc = "run_tasks" ->
             [k EXCEPT !.c = exclusive_access(@, ProcessorCell, "rt_fetch")]
      [] k.c.pc = "rt_fetch" ->
             IF task.some
             THEN [k EXCEPT !.c.next = task.id, !.c.pc = "rt_inner"]
             ELSE [k EXCEPT !.c = drop_guard(@, ProcessorCell, "run_tasks")]
      [] k.c.pc = "rt_inner" ->
             [k EXCEPT !.c = exclusive_access(@, k.c.next, "rt_mark")]
      [] k.c.pc = "rt_mark" ->
             [k EXCEPT !.tm.tasks[k.c.next].task_status = "Running",
                       !.c.pc = "rt_drop_inner"]
      [] k.c.pc = "rt_drop_inner" ->
             [k EXCEPT !.c = drop_guard(@, k.c.next, "rt_current")]
      [] k.c.pc = "rt_current" ->
             [k EXCEPT !.c.current = SomeTask(k.c.next), !.c.pc = "rt_drop"]
      [] k.c.pc = "rt_drop" ->
             [k EXCEPT !.c = drop_guard(@, ProcessorCell, "rt_switch")]
      [] k.c.pc = "rt_switch" -> [k EXCEPT !.c = switch(@, IdleCx, k.c.next)]
      [] OTHER -> k

\* schedule, statement by statement
schedule_step(k) ==
    CASE k.c.pc = "schedule" ->
             [k EXCEPT !.c = exclusive_access(@, ProcessorCell, "sch_drop")]
      [] k.c.pc = "sch_drop" ->
             [k EXCEPT !.c = drop_guard(@, ProcessorCell, "sch_switch")]
      [] k.c.pc = "sch_switch" ->
             [k EXCEPT !.c = switch(@, k.c.on,
                                    schedule_to(k.c, {i \in 0 .. NumApp - 1 :
                                        k.tm.tasks[i].task_status = "Ready"}))]
      [] OTHER -> k

\* the first exclusive access of a task that __switch resumed: the cell of the
\* scheduler it was switched by, taken and dropped again on the way to user mode
resume_step(k) ==
    LET cell == IF k.c.variant = "manager" THEN ManagerCell ELSE ProcessorCell
    IN IF k.c.pc # "resume" THEN k
       ELSE IF cell \in k.c.held \/ k.c.on \in k.c.held THEN [k EXCEPT !.c.pc = "panic"]
       ELSE [k EXCEPT !.c.pc = "user"]

\* a trap of the running task that ends in a switch: it yields (status Ready)
\* or exits (status Exited). With the task manager the current task is marked
\* and run_next_task follows; with the processor the task is taken out of
\* PROCESSOR.current, marked, and schedule follows
trap_step(k, status) ==
    IF k.c.pc # "user" THEN k
    ELSE IF k.c.variant = "manager"
    THEN [k EXCEPT !.tm = IF status = "Ready" THEN mark_current_suspended(@)
                          ELSE mark_current_exited(@),
                   !.c.pc = "run_next_task"]
    ELSE [k EXCEPT !.tm.tasks[k.c.on].task_status = status,
                   !.c.current = NoTask,
                   !.c.pc = "schedule"]

\* MemorySet::translate as the permission checks call it: the owning area,
\* the page made resident, the entry of the page table
MemorySet_translate(ms, vpn) == transform(ms, vpn)

\* PageTableEntry::readable, writable, executable
readable(pte) == "R" \in pte.flags
writable(pte) == "W" \in pte.flags
executable(pte) == "X" \in pte.flags

\* check_readable on the address space of the current task
check_readable(ms, va) ==
    Let(MemorySet_translate(ms, floor(va)), LAMBDA a :
        IF a.res # "Ok" THEN Ret(a.res, a.ms)
        ELSE IF readable(a.pte) THEN Ret("Ok", a.ms)
        ELSE Ret("Unreadable", a.ms))

\* check_writeable that tests the W flag alone
check_writeable_no_read(ms, va) ==
    Let(MemorySet_translate(ms, floor(va)), LAMBDA a :
        IF a.res # "Ok" THEN Ret(a.res, a.ms)
        ELSE IF writable(a.pte) THEN Ret("Ok", a.ms)
        ELSE Ret("Unwritable", a.ms))

\* check_writeable on the address space of the current task
check_writeable(ms, va) ==
    Let(MemorySet_translate(ms, floor(va)), LAMBDA a :
        IF a.res # "Ok" THEN Ret(a.res, a.ms)
        ELSE IF readable(a.pte) /\ writable(a.pte) THEN Ret("Ok", a.ms)
        ELSE Ret("Unwritable", a.ms))

\* check_executable on the address space of the current task
check_executable(ms, va) ==
    Let(MemorySet_translate(ms, floor(va)), LAMBDA a :
        IF a.res # "Ok" THEN Ret(a.res, a.ms)
        ELSE IF readable(a.pte) /\ executable(a.pte) THEN Ret("Ok", a.ms)
        ELSE Ret("Unexecutable", a.ms))

\* ------------------------------------------------------------ fs/inode.rs
\* file names; "test" is the link name that list_apps and all pass to add
Names == {"a", "b", "test"}

\* OpenFlags, as the set of the bits set (RDONLY is no bit)
OpenFlags == {{}, {"RDWR"}, {"CREATE"}}

\* OpenFlags::read_write -> (readable, writable)
read_write(flags) ==
    IF flags = {} THEN << TRUE, FALSE >>
    ELSE IF "WRONLY" \in flags THEN << FALSE, TRUE >>
    ELSE << TRUE, TRUE >>

\* LinkManager::new
LinkManager_new == << >>

\* add that appends whatever the names are
add_always(ls, target, link) ==
    [res |-> 0, links |-> Append(ls, [target |-> target, link |-> link])]

\* LinkManager::add
add(ls, target, link) ==
    IF target = link
    THEN [res |-> -1, links |-> ls]
    ELSE [res |-> 0, links |-> Append(ls, [target |-> target, link |-> link])]

\* LinkManager::remove: the first link whose target or link is name
remove(ls, name) ==
    LET i == Find(ls, LAMBDA l : l.target = name \/ l.link = name)
    IN IF i = 0 THEN [res |-> -1, links |-> ls]
       ELSE [res |-> 0, links |-> SubSeq(ls, 1, i - 1) \o SubSeq(ls, i + 1, Len(ls))]

\* LinkManager::fetch: the target of the first link whose target or link is
\* name, or name itself
fetch(ls, name) ==
    LET i == Find(ls, LAMBDA l : l.target = name \/ l.link = name)
    IN IF i = 0 THEN name ELSE ls[i].target

\* LinkManager::find_num
find_num(ls, name) == Cardinality({i \in 1 .. Len(ls) : ls[i].target = name})

\* LinkManager::find_index: positions count from 0; links.len() when none
find_index(ls, name) ==
    LET i == Find(ls, LAMBDA l : l.target = name)
    IN IF i = 0 THEN Len(ls) ELSE i - 1

\* LinkManager::all -> (fetched_name, nlink, index), and the list after it
all(ls, name, flags) ==
    LET after == IF "CREATE" \in flags THEN add(ls, name, "test").links ELSE ls
        fetched_name == fetch(after, name)
    IN [links |-> after, name |-> fetched_name,
        nlink |-> find_num(after, fetched_name), index |-> find_index(after, fetched_name)]

\* ROOT_INODE.find(name) is Some
RootFind(rt, name) == \E i \in 1 .. Len(rt) : rt[i] = name

\* OSInode::new
OSInode_new(r, w, ino, nlink, name) ==
    [readable |-> r, writable |-> w,
     stat |-> [ino |-> ino, nlink |-> nlink], name |-> name]

\* open_file -> Option<OSInode>, with the link list and the directory after it
open_file(ls, rt, name, flags) ==
    LET rw == read_write(flags)
        r == all(ls, name, flags)
        inode == OSInode_new(rw[1], rw[2], r.index, r.nlink, r.name)
    IN IF "CREATE" \in flags
       THEN [some |-> TRUE, inode |-> inode, links |-> r.links,
             root |-> IF RootFind(rt, r.name) THEN rt ELSE Append(rt, r.name)]
       ELSE [some |-> r.nlink # 0 /\ RootFind(rt, r.name), inode |-> inode,
             links |-> r.links, root |-> rt]

\* OSInode::stat -> Stat, with the link list after it
stat(ls, inode) ==
    LET r == all(ls, inode.name, {"RDWR"})
    IN [stat |-> [ino |-> r.index, nlink |-> r.nlink], links |-> r.links]

\* no kernel stack computed yet
NoStack == [some |-> FALSE, bottom |-> 0, top |-> 0]

\* a task id whose stack lies within the address space: neither subtraction
\* leaves usize
InAddressRange(app_id) ==
    TRAMPOLINE - app_id * (KERNEL_STACK_SIZE + PAGE_SIZE) - KERNEL_STACK_SIZE >= 0

\* stacks laid out without the guard page
kernel_stack_position_no_guard(app_id, overflow_checks) ==
    LET top == TRAMPOLINE - app_id * KERNEL_STACK_SIZE
        bottom == top - KERNEL_STACK_SIZE
    IN IF bottom >= 0 \/ ~overflow_checks
       THEN [res |-> "Ok", bottom |-> bottom % UsizeSpan, top |-> top % UsizeSpan]
       ELSE [res |-> "panic", bottom |-> 0, top |-> 0]

\* kernel_stack_position(app_id) -> (bottom, top). The product and the two
\* subtractions are in usize: where one leaves the type a build with overflow
\* checks panics and a build without goes on with the wrapped value
kernel_stack_position(app_id, overflow_checks) ==
    LET product == app_id * (KERNEL_STACK_SIZE + PAGE_SIZE)
        top == TRAMPOLINE - product
        bottom == top - KERNEL_STACK_SIZE
    IN IF (product < UsizeSpan /\ top >= 0 /\ bottom >= 0) \/ ~overflow_checks
       THEN [res |-> "Ok", bottom |-> bottom % UsizeSpan, top |-> top % UsizeSpan]
       ELSE [res |-> "panic", bottom |-> 0, top |-> 0]

\* BTreeMap::new, the empty syscall_times of TaskInfo::new
BTreeMap_new == [id \in {} |-> 0]

\* syscall_counter: *times.entry(syscall_id).or_default() += 1 on the map of
\* the current task; st holds the syscall_times of all tasks. The counter is
\* a u32: at its greatest value the addition panics in a build with overflow
\* checks and wraps to 0 in a build without
syscall_counter(st, current, syscall_id, overflow_checks) ==
    LET times == st[current]
        n == IF syscall_id \in DOMAIN times THEN times[syscall_id] ELSE 0
    IN IF n + 1 < 2 ^ CounterBits
       THEN [res |-> "Ok", st |-> [st EXCEPT ![current] = Insert(times, syscall_id, n + 1)]]
       ELSE IF overflow_checks THEN [res |-> "panic", st |-> st]
       ELSE [res |-> "Ok",
             st |-> [st EXCEPT ![current] = Insert(times, syscall_id, (n + 1) % (2 ^ CounterBits))]]

\* set_syscall_times: syscalls[*id] = *n for every entry of the map of the
\* current task, into the zeroed array of sys_task_info; an index outside the
\* array panics
set_syscall_times(st, current) ==
    LET times == st[current]
    IN IF \E id \in DOMAIN times : id >= MAX_SYSCALL_NUM
       THEN [res |-> "panic", syscalls |-> << >>]
       ELSE [res |-> "Ok",
             syscalls |-> [id \in 0 .. MAX_SYSCALL_NUM - 1 |->
                              IF id \in DOMAIN times THEN times[id] ELSE 0]]

\* ------------------------------------------------------------------- state
VARIABLES
    areas,        \* MemorySet.areas
    page_table,   \* MemorySet.page_table
    free,         \* the free pool of the frame allocator
    origin,       \* how the MemorySet was built: the constructor and its image
    last,         \* the last operation and its result
    ops,          \* the number of operations applied so far
    mem,          \* the bytes of the physical pages 0 .. NumFrames
    tasks,        \* TaskManagerInner.tasks
    current_task, \* TaskManagerInner.current_task
    kernel,       \* "boot" before run_first_task, then "run", "halt" after the panic
    time,         \* the clock get_time_ms reads, at the last scheduling operation
    cpu,          \* the control flow of the kernel: the context that runs, its
                  \* place in the code, the guards alive, the last __switch
    waited,       \* per task, the run_next_task calls that passed it over since
                  \* it was last found Ready after a scheduling operation
    syscall_times, \* per task, TaskInfo.syscall_times
    kernel_stack, \* per task, the (bottom, top) kernel_stack_position returned for it
    links, \* LINK_MANAGER.links
    root, \* the names in the directory of ROOT_INODE, in directory order
    inodes \* the OSInodes open_file has returned

vars == << areas, page_table, free, origin, last, ops, mem,
           tasks, current_task, kernel, time, cpu, waited, syscall_times, kernel_stack, links, root, inodes >>

memVars == << areas, page_table, free, origin, ops, mem >>
taskVars == << tasks, current_task, kernel, time, cpu, waited, syscall_times, kernel_stack, links, root, inodes >>

MS == [areas |-> areas, pt |-> page_table, free |-> free, mem |-> mem]

\* permission sets the callers pass
Perms == {{"R", "W", "U"}, {"R", "U"}}
RWU == {"R", "W", "U"}

\* addresses the callers pass: every page boundary and one unaligned address
PageBounds == {v * PAGE_SIZE : v \in 0 .. TopVPN + 1}
StartVAs == PageBounds \cup {1}
EndVAs == PageBounds \cup {PAGE_SIZE + 1}

\* the values of the bytes copied; a page never written holds zeroes
Bytes == {1, 2}

\* the images loaded: one Load segment of one page at address 0; data is
\* elf.input[offset .. offset + file_size)
Elfs == { << [type |-> "Load", virtual_addr |-> 0, mem_size |-> PAGE_SIZE,
              data |-> [k \in 1 .. PAGE_SIZE |-> 1], flags |-> {"R", "X"}] >> }

\* before construction: no page table, every frame free
Blank == [areas |-> << >>,
          pt |-> [entries |-> [v \in VPNs |-> NoPTE], dirs |-> {}, frames |-> {}],
          free |-> PPNs,
          mem |-> [f \in 0 .. NumFrames |-> [o \in 0 .. PAGE_SIZE - 1 |-> 0]]]

Origins == {[ctor |-> "new_bare", elf |-> << >>]}
           \cup {[ctor |-> "from_elf", elf |-> e] : e \in Elfs}

Built(o) == IF o.ctor = "new_bare" THEN new_bare(Blank) ELSE from_elf(Blank, o.elf)

\* the constructions, computed once
Constructed == [o \in Origins |-> Built(o)]

\* the kernel images: the section bounds the linker script defines, page
\* aligned and adjacent, with .text, .rodata and .data not empty, and the end of
\* physical memory at or below the trampoline page
KernelLayouts ==
    {[stext |-> b[1] * PAGE_SIZE, etext |-> b[2] * PAGE_SIZE,
      srodata |-> b[2] * PAGE_SIZE, erodata |-> b[3] * PAGE_SIZE,
      sdata |-> b[3] * PAGE_SIZE, edata |-> b[4] * PAGE_SIZE,
      sbss_with_stack |-> b[4] * PAGE_SIZE, ebss |-> b[5] * PAGE_SIZE,
      ekernel |-> b[5] * PAGE_SIZE, MEMORY_END |-> b[6] * PAGE_SIZE] :
        b \in {c \in [1 .. 6 -> 0 .. TopVPN] :
                  /\ c[1] < c[2] /\ c[2] < c[3] /\ c[3] < c[4]
                  /\ c[4] <= c[5] /\ c[5] <= c[6]}}

\* KERNEL_SPACE, computed once for every image
ConstructedKernel == [k \in KernelLayouts |-> new_kernel(Blank, k)]

\* the program headers of an image: Load segments of up to two pages at a
\* page boundary, with or without file bytes, and a header of another type
ProgramHeaders ==
    {[type |-> "Load", virtual_addr |-> v * PAGE_SIZE, mem_size |-> m,
      data |-> d, flags |-> {"R"}] :
        v \in 0 .. TopVPN - 2, m \in {1, PAGE_SIZE, 2 * PAGE_SIZE}, d \in {<< >>, <<1>>}}
    \cup {[type |-> "Note", virtual_addr |-> 0, mem_size |-> PAGE_SIZE,
           data |-> << >>, flags |-> {"R"}]}

\* the images: one or two program headers in any order
Images == {<<p>> : p \in ProgramHeaders} \cup {<<p, q>> : p, q \in ProgramHeaders}

\* the address spaces of the images, computed once
ConstructedImage == [e \in Images |-> from_elf(Blank, e)]

AreaCap ==
    MaxAreas + IF origin.ctor = "new_kernel"
               THEN Len(ConstructedKernel[origin.elf].ms.areas)
               ELSE IF origin \in Origins THEN Len(Constructed[origin].ms.areas)
               ELSE Len(ConstructedImage[origin.elf].ms.areas)

\* the address space after construction
InitMemory ==
    /\ origin \in Origins
    /\ Constructed[origin].res = "Ok"
    /\ areas = Constructed[origin].ms.areas
    /\ page_table = Constructed[origin].ms.pt
    /\ free = Constructed[origin].ms.free
    /\ mem = Constructed[origin].ms.mem
    /\ last = [op |-> origin.ctor, res |-> "Ok"]
    /\ ops = 0

Tasks == 0 .. NumApp - 1

\* the kernel before it starts the first task: the boot context runs, no guard
\* is alive, no task is current, no __switch has run
Boot(pc, variant) ==
    [variant |-> variant, on |-> IdleCx, pc |-> pc, held |-> {}, next |-> 0,
     current |-> NoTask,
     sw |-> [some |-> FALSE, save |-> 0, restore |-> 0, held |-> {}, from |-> ""]]

\* TASK_MANAGER after lazy_static: every task loaded, current_task 0
Loaded(status) ==
    /\ tasks = [i \in Tasks |-> TaskControlBlock_new(status[i])]
    /\ current_task = 0
    /\ kernel = "boot"
    /\ time = 0
    /\ cpu = Boot("rust_main", "manager")
    /\ waited = [i \in Tasks |-> 0]
    /\ syscall_times = [i \in Tasks |-> BTreeMap_new]
    /\ kernel_stack = [i \in Tasks |-> NoStack]
    /\ links = LinkManager_new
    /\ root = << >>
    /\ inodes = {}

Init == InitMemory /\ Loaded([i \in Tasks |-> "Ready"])

InitBare == Init /\ origin.ctor = "new_bare"
InitElf == Init /\ origin.ctor = "from_elf"

Apply(op, ret) ==
    /\ ops < MaxOps
    /\ \E r \in {ret} :
        /\ ops' = ops + 1
        /\ Len(r.ms.areas) <= AreaCap
        /\ areas' = r.ms.areas
        /\ page_table' = r.ms.pt
        /\ free' = r.ms.free
        /\ mem' = r.ms.mem
        /\ last' = [op |-> op, res |-> r.res]
        /\ UNCHANGED origin
        /\ UNCHANGED taskVars

InsertFramedArea ==
    \E s \in PageBounds, e \in PageBounds, p \in {RWU} :
        /\ s <= e
        /\ Apply("insert_framed_area", insert_framed_area(MS, s, e, p))

InsertFramedAreaLazy ==
    \E s \in PageBounds, e \in PageBounds, p \in {RWU} :
        /\ s <= e
        /\ Apply("insert_framed_area_lazy", insert_framed_area_lazy(MS, s, e, p))

MapMemory ==
    \E s \in StartVAs, e \in EndVAs, p \in Perms :
        /\ s <= e
        /\ Apply("map_memory", map_memory(MS, s, e, p))

UnmapMemory ==
    \E s \in StartVAs, e \in EndVAs :
        /\ s <= e
        /\ Apply("unmap_memory", unmap_memory(MS, s, e))

\* narrow builds VPNRange::new(to, end) and VPNRange::new(start, to)
ShrinkTo ==
    \E s \in PageBounds, e \in PageBounds :
        LET i == Find(areas, LAMBDA x : x.vpn_range.start = floor(s))
        IN /\ i # 0 => /\ ceil(e) <= areas[i].vpn_range.end
                       /\ areas[i].vpn_range.start <= ceil(e)
           /\ Apply("shrink_to", shrink_to(MS, s, e))

\* expand builds VPNRange::new(end, to)
AppendTo ==
    \E s \in PageBounds, e \in PageBounds :
        LET i == Find(areas, LAMBDA x : x.vpn_range.start = floor(s))
        IN /\ i # 0 => areas[i].vpn_range.end <= ceil(e)
           /\ Apply("append_to", append_to(MS, s, e))

Transform ==
    \E vpn \in VPNs : Apply("transform", transform(MS, vpn))

Next ==
    \/ InsertFramedArea
    \/ InsertFramedAreaLazy
    \/ MapMemory
    \/ UnmapMemory
    \/ ShrinkTo
    \/ AppendTo
    \/ Transform

Spec == Init /\ [][Next]_vars

\* the user-facing operations alone, on an address space built by from_elf
NextUser ==
    \/ MapMemory
    \/ UnmapMemory

SpecUser == InitElf /\ [][NextUser]_vars

\* the buffers copied: every byte string of up to two pages
Datas == UNION {[1 .. n -> Bytes] : n \in 0 .. 2 * PAGE_SIZE}

\* MapArea::copy_data on an area of the set; a call that fails an assertion of
\* copy_data panics
CopyData ==
    \E i \in 1 .. Len(areas), data \in Datas :
        /\ areas[i].vpn_range.start \in VPNs
        /\ ~copy_data_panics(areas[i], data)
        /\ \E r \in {copy_data(areas[i], MS, data)} :
               Apply("copy_data", Ret(r.res, [r.ms EXCEPT !.areas[i] = r.a]))

\* a bare address space, areas inserted into it and data copied into them
NextCopy ==
    \/ InsertFramedArea
    \/ InsertFramedAreaLazy
    \/ CopyData

SpecCopy == InitBare /\ [][NextCopy]_vars

\* the arguments of the memory-map syscalls: lengths up to two pages, and
\* permission arguments with no bit, with low bits and with a bit above them
Lens == {0, 1, PAGE_SIZE, PAGE_SIZE + 1, 2 * PAGE_SIZE}
Ports == {0, 1, 3, 4, 7, 8, 11}

\* start + len stays within the address space (in usize the sum would overflow)
InSpace(start, len) == start + len <= TRAMPOLINE + PAGE_SIZE

SysMmap ==
    \E start \in StartVAs, len \in Lens, port \in Ports :
        /\ InSpace(start, len)
        /\ Apply("sys_mmap", sys_mmap(MS, start, len, port))

SysMunmap ==
    \E start \in StartVAs, len \in Lens :
        /\ InSpace(start, len)
        /\ Apply("sys_munmap", sys_munmap(MS, start, len))

\* the memory-map syscalls of a task on the address space from_elf built for it
NextSys ==
    \/ SysMmap
    \/ SysMunmap

SpecSys == InitElf /\ [][NextSys]_vars

\* the kernel address space after lazy_static builds KERNEL_SPACE
InitKernel ==
    /\ \E k \in KernelLayouts :
           /\ ConstructedKernel[k].res = "Ok"
           /\ origin = [ctor |-> "new_kernel", elf |-> k]
           /\ areas = ConstructedKernel[k].ms.areas
           /\ page_table = ConstructedKernel[k].ms.pt
           /\ free = ConstructedKernel[k].ms.free
           /\ mem = ConstructedKernel[k].ms.mem
    /\ last = [op |-> "new_kernel", res |-> "Ok"]
    /\ ops = 0
    /\ Loaded([i \in Tasks |-> "Ready"])

RemapTest == Apply("remap_test", Ret(remap_test(MS, origin.elf), MS))

\* the kernel space: remap_test, and the framed areas the kernel inserts into it
NextKernel ==
    \/ InsertFramedArea
    \/ RemapTest

SpecKernel == InitKernel /\ [][NextKernel]_vars

TM == [tasks |-> tasks, current_task |-> current_task]

\* the statuses a task is loaded with
LoadStatus == {"Ready", "UnInit"}

InitTask ==
    /\ InitMemory
    /\ origin.ctor = "from_elf"
    /\ \E status \in [Tasks -> LoadStatus] : Loaded(status)

\* a scheduling operation at clock value now: the task manager it leaves and
\* whether the kernel runs on
Schedule(op, now, r) ==
    /\ tasks' = r.tm.tasks
    /\ current_task' = r.tm.current_task
    /\ kernel' = IF r.res = "Ok" THEN "run" ELSE "halt"
    /\ time' = now
    /\ last' = [op |-> op, res |-> r.res]
    /\ waited' = [i \in Tasks |->
                      IF /\ op # "run_first_task"
                         /\ tasks[i].task_status = "Ready"
                         /\ r.tm.tasks[i].task_status = "Ready"
                      THEN waited[i] + 1 ELSE 0]
    /\ UNCHANGED memVars
    /\ UNCHANGED << cpu, syscall_times, kernel_stack, links, root, inodes >>

\* rust_main calls run_first_task once
RunFirstTask ==
    /\ kernel = "boot"
    /\ \E now \in time .. MaxTime :
           Schedule("run_first_task", now, [res |-> "Ok", tm |-> run_first_task(TM, now)])

\* sys_yield and the timer interrupt of the running task
SuspendCurrentAndRunNext ==
    /\ kernel = "run"
    /\ \E now \in time .. MaxTime :
           Schedule("suspend_current_and_run_next", now, suspend_current_and_run_next(TM, now))

\* sys_exit and the fatal traps of the running task
ExitCurrentAndRunNext ==
    /\ kernel = "run"
    /\ \E now \in time .. MaxTime :
           Schedule("exit_current_and_run_next", now, exit_current_and_run_next(TM, now))

NextTask ==
    \/ RunFirstTask
    \/ SuspendCurrentAndRunNext
    \/ ExitCurrentAndRunNext

SpecTask == InitTask /\ [][NextTask]_vars

\* the task manager with the scheduling the kernel guarantees: rust_main
\* calls run_first_task, and the timer interrupt or a system call of the
\* Running task brings the kernel back into the scheduler
SpecTaskLive ==
    /\ InitTask
    /\ [][NextTask]_vars
    /\ WF_vars(RunFirstTask)
    /\ WF_vars(SuspendCurrentAndRunNext \/ ExitCurrentAndRunNext)

\* the port arguments of sys_mmap before a permission check: R, W, R|W, R|X
CheckPorts == {1, 2, 3, 5}

\* the addresses handed to a permission check: every byte of the address space
CheckVAs == 0 .. TRAMPOLINE + PAGE_SIZE - 1

SysMmapPort ==
    \E start \in PageBounds, len \in {PAGE_SIZE, 2 * PAGE_SIZE}, port \in CheckPorts :
        /\ InSpace(start, len)
        /\ Apply("sys_mmap", sys_mmap(MS, start, len, port))

CheckReadable == \E va \in CheckVAs : Apply("check_readable", check_readable(MS, va))

CheckWriteable == \E va \in CheckVAs : Apply("check_writeable", check_writeable(MS, va))

CheckExecutable == \E va \in CheckVAs : Apply("check_executable", check_executable(MS, va))

\* the permission checks of user pointers on the address space of a task,
\* between the memory-map syscalls of the task
NextCheck ==
    \/ SysMmapPort
    \/ SysMunmap
    \/ CheckReadable
    \/ CheckWriteable
    \/ CheckExecutable

SpecCheck == InitElf /\ [][NextCheck]_vars

\* the address space from_elf builds for an image
InitLoad ==
    /\ \E e \in Images :
           /\ ConstructedImage[e].res = "Ok"
           /\ origin = [ctor |-> "from_elf", elf |-> e]
           /\ areas = ConstructedImage[e].ms.areas
           /\ page_table = ConstructedImage[e].ms.pt
           /\ free = ConstructedImage[e].ms.free
           /\ mem = ConstructedImage[e].ms.mem
    /\ last = [op |-> "from_elf", res |-> "Ok"]
    /\ ops = 0
    /\ Loaded([i \in Tasks |-> "Ready"])

\* a loaded task touches its pages and has its pointers checked
NextLoad ==
    \/ Transform
    \/ CheckReadable
    \/ CheckWriteable

SpecLoad == InitLoad /\ [][NextLoad]_vars

\* the tasks as the loader leaves them, all Ready
InitCount ==
    /\ InitMemory
    /\ origin.ctor = "from_elf"
    /\ Loaded([i \in Tasks |-> "Ready"])

\* the trap handler counts a system call of the Running task
SyscallCounter ==
    /\ kernel = "run"
    /\ ops < MaxCalls
    /\ \E syscall_id \in 0 .. MaxSyscallId, overflow_checks \in BOOLEAN :
           LET r == syscall_counter(syscall_times, current_task, syscall_id, overflow_checks)
           IN /\ syscall_times' = r.st
              /\ kernel' = IF r.res = "Ok" THEN "run" ELSE "halt"
              /\ last' = [op |-> "syscall_counter", res |-> r.res]
    /\ ops' = ops + 1
    /\ UNCHANGED << areas, page_table, free, origin, mem >>
    /\ UNCHANGED << tasks, current_task, time, cpu, waited, kernel_stack, links, root, inodes >>

\* sys_task_info of the Running task with a buffer it may write
SysTaskInfo ==
    /\ kernel = "run"
    /\ LET r == set_syscall_times(syscall_times, current_task)
       IN /\ kernel' = IF r.res = "Ok" THEN "run" ELSE "halt"
          /\ last' = [op |-> "sys_task_info", res |-> r.res]
    /\ UNCHANGED memVars
    /\ UNCHANGED << tasks, current_task, time, cpu, waited, syscall_times, kernel_stack, links, root, inodes >>

\* sys_yield of the Running task, within the clock tick of the last
\* scheduling operation
SysYield ==
    /\ kernel = "run"
    /\ Schedule("suspend_current_and_run_next", time,
                suspend_current_and_run_next(TM, time))

NextCount ==
    \/ RunFirstTask
    \/ SysYield
    \/ SyscallCounter
    \/ SysTaskInfo

SpecCount == InitCount /\ [][NextCount]_vars

\* the tasks before the first one runs: the kernel computes the stack of an
\* application in either build; a panic ends the run
InitStack ==
    /\ InitMemory
    /\ origin.ctor = "from_elf"
    /\ Loaded([i \in Tasks |-> "Ready"])

KernelStackPosition ==
    \E app_id \in Tasks, overflow_checks \in BOOLEAN :
        LET r == kernel_stack_position(app_id, overflow_checks)
        IN /\ kernel = "boot"
           /\ kernel' = IF r.res = "Ok" THEN "boot" ELSE "halt"
           /\ kernel_stack' = IF r.res = "Ok"
                               THEN [kernel_stack EXCEPT
                                         ![app_id] = [some |-> TRUE, bottom |-> r.bottom, top |-> r.top]]
                               ELSE kernel_stack
           /\ last' = [op |-> "kernel_stack_position", res |-> r.res]
           /\ UNCHANGED << memVars, tasks, current_task, time, cpu, waited, syscall_times, links, root, inodes >>

NextStack ==
    \/ KernelStackPosition

SpecStack == InitStack /\ [][NextStack]_vars

\* the link manager and the root directory after lazy_static: no link, and
\* files appear in the directory as open_file creates them
InitLink ==
    /\ InitMemory
    /\ origin.ctor = "from_elf"
    /\ Loaded([i \in Tasks |-> "Ready"])

\* a step of the file layer: the link list, the directory and the open inodes
\* after it, and what the operation returned
LinkStep(op, res, ls, rt, ins) ==
    /\ Len(ls) <= MaxLinks
    /\ links' = ls
    /\ root' = rt
    /\ inodes' = ins
    /\ last' = [op |-> op, res |-> res]
    /\ UNCHANGED << memVars, tasks, current_task, kernel, time, cpu, waited,
                    syscall_times, kernel_stack >>

\* list_apps: add(app, "test") for every name of the directory
RECURSIVE AddApps(_, _)
AddApps(ls, apps) ==
    IF apps = << >> THEN ls ELSE AddApps(add(ls, Head(apps), "test").links, Tail(apps))

ListApps == LinkStep("list_apps", 0, AddApps(links, root), root, inodes)

LinkAdd ==
    \E target \in Names, link \in Names :
        LET r == add(links, target, link)
        IN LinkStep("add", r.res, r.links, root, inodes)

LinkRemove ==
    \E name \in Names :
        LET r == remove(links, name)
        IN LinkStep("remove", r.res, r.links, root, inodes)

\* the read-only queries of the link manager
LinkQuery ==
    \E name \in Names :
        \/ LinkStep("fetch", fetch(links, name), links, root, inodes)
        \/ LinkStep("find_num", find_num(links, name), links, root, inodes)
        \/ LinkStep("find_index", find_index(links, name), links, root, inodes)

OpenFile ==
    \E name \in Names, flags \in OpenFlags :
        LET r == open_file(links, root, name, flags)
        IN /\ r.some => Cardinality(inodes) < MaxInodes
           /\ LinkStep("open_file", IF r.some THEN r.inode.stat.nlink ELSE -1, r.links, r.root,
                       IF r.some THEN inodes \cup {r.inode} ELSE inodes)

\* File::stat of an open inode
InodeStat ==
    \E inode \in inodes :
        LET r == stat(links, inode)
        IN LinkStep("stat", r.stat.nlink, r.links, root, inodes)

\* an open inode is dropped
InodeDrop ==
    \E inode \in inodes : LinkStep("drop", 0, links, root, inodes \ {inode})

NextLink ==
    \/ ListApps
    \/ LinkAdd
    \/ LinkRemove
    \/ LinkQuery
    \/ OpenFile
    \/ InodeStat
    \/ InodeDrop

SpecLink == InitLink /\ [][NextLink]_vars

\* the kernel as rust_main enters the scheduler: run_first_task with the task
\* manager, run_tasks with the processor; every task is loaded Ready
InitSwitch ==
    /\ InitMemory
    /\ origin.ctor = "from_elf"
    /\ tasks = [i \in Tasks |-> TaskControlBlock_new("Ready")]
    /\ current_task = 0
    /\ kernel = "boot"
    /\ time = 0
    /\ cpu \in {Boot("run_first_task", "manager"), Boot("run_tasks", "processor")}
    /\ waited = [i \in Tasks |-> 0]
    /\ syscall_times = [i \in Tasks |-> BTreeMap_new]
    /\ kernel_stack = [i \in Tasks |-> NoStack]
    /\ links = LinkManager_new
    /\ root = << >>
    /\ inodes = {}

K == [c |-> cpu, tm |-> TM]

\* one step of the kernel's control flow
Step(op, k) ==
    /\ k # K
    /\ cpu' = k.c
    /\ tasks' = k.tm.tasks
    /\ current_task' = k.tm.current_task
    /\ kernel' = IF k.c.pc \in {"panic", "completed"} THEN "halt" ELSE "run"
    /\ last' = [op |-> op, res |-> k.c.pc]
    /\ UNCHANGED << memVars, time, waited, syscall_times, kernel_stack, links, root, inodes >>

RunFirstTaskStep == Step("run_first_task", run_first_task_step(K, time))

RunNextTaskStep == Step("run_next_task", run_next_task_step(K, time))

\* fetch_task returns a Ready task, or None when there is none
RunTasksStep ==
    LET ready == {i \in Tasks : tasks[i].task_status = "Ready"}
    IN \E task \in {SomeTask(i) : i \in ready} \cup {t \in {NoTask} : ready = {}} :
           Step("run_tasks", run_tasks_step(K, task))

ScheduleStep == Step("schedule", schedule_step(K))

ResumeStep == Step("resume", resume_step(K))

TrapStep == \E status \in {"Ready", "Exited"} : Step("trap", trap_step(K, status))

NextSwitch ==
    \/ RunFirstTaskStep
    \/ RunNextTaskStep
    \/ RunTasksStep
    \/ ScheduleStep
    \/ ResumeStep
    \/ TrapStep

SpecSwitch == InitSwitch /\ [][NextSwitch]_vars

\* ------------------------------------------------------------ properties
Covered(as, v) == \E i \in 1 .. Len(as) : is_contains(as[i].vpn_range, v)
Covering(as, v) == {i \in 1 .. Len(as) : is_contains(as[i].vpn_range, v)}
Owners(as, f) ==
    {iv \in (1 .. Len(as)) \X VPNs :
        iv[2] \in DOMAIN as[iv[1]].data_frame /\ as[iv[1]].data_frame[iv[2]] = f}
Calls == {se \in StartVAs \X EndVAs : se[1] <= se[2]}
Target(se) == VPNRange_new(floor(se[1]), ceil(se[2]))
HasCritical(r) == floor(TRAMPOLINE) \in RangeSet(r) \/ floor(TRAP_CONTEXT_BASE) \in RangeSet(r)

\* C1: the VPN ranges of the areas of a MemorySet never overlap
C1_NoOverlap ==
    \A i \in 1 .. Len(areas), j \in 1 .. Len(areas) :
        i < j => RangeSet(areas[i].vpn_range) \cap RangeSet(areas[j].vpn_range) = {}

\* C2: every frame is free, or held by the page table as a table frame, or owned
\* by exactly one entry of one area's data_frame - and only one of the three
C2_FrameOwnership ==
    \A f \in PPNs :
        /\ f \in free => f \notin page_table.frames /\ Owners(areas, f) = {}
        /\ f \in page_table.frames => Owners(areas, f) = {}
        /\ f \notin free /\ f \notin page_table.frames
               => Cardinality(Owners(areas, f)) = 1

\* C2 witness: an eager insertion has just failed while areas own frames and
\* some frames are free
C2_Witness ==
    /\ last.op = "insert_framed_area" /\ last.res # "Ok"
    /\ \E i \in 1 .. Len(areas) : Cardinality(DOMAIN areas[i].data_frame) >= 2
    /\ free # {}

\* C3: on a range without critical page map_memory succeeds exactly when the
\* range shares no page with an area; then it appends the new, unfilled area and
\* changes nothing else; otherwise it fails with ContainMapped and changes nothing
C3_MapMemoryIffDisjoint ==
    \A se \in Calls, p \in Perms :
        LET r == map_memory(MS, se[1], se[2], p)
            free_range == \A v \in RangeSet(Target(se)) : ~Covered(areas, v)
        IN ~HasCritical(Target(se)) =>
             /\ r.res = "Ok" <=> free_range
             /\ free_range =>
                  r.ms = [MS EXCEPT !.areas = Append(@,
                             [vpn_range |-> Target(se), data_frame |-> << >>,
                              map_type |-> "Framed", map_permission |-> p])]
             /\ ~free_range => r = Ret("ContainMapped", MS)

\* C3 witness: map_memory was refused with ContainMapped in an address space
\* built by new_bare that holds two non-empty areas sharing no page
C3_Witness ==
    /\ origin.ctor = "new_bare"
    /\ last = [op |-> "map_memory", res |-> "ContainMapped"]
    /\ Len(areas) = 2
    /\ C1_NoOverlap
    /\ \A i \in 1 .. Len(areas) : ~is_empty(areas[i].vpn_range)

\* C4: unmap_memory on a range holding the trampoline page or the trap-context
\* page fails with CriticalArea and changes nothing
C4_UnmapCritical ==
    \A se \in Calls :
        HasCritical(Target(se)) => unmap_memory(MS, se[1], se[2]) = Ret("CriticalArea", MS)

\* C4 witness: unmap_memory was refused as critical while an area covers a
\* critical page
C4_Witness ==
    /\ last = [op |-> "unmap_memory", res |-> "CriticalArea"]
    /\ Covered(areas, floor(TRAP_CONTEXT_BASE))

TrapArea(as) ==
    {i \in 1 .. Len(as) :
        /\ as[i].vpn_range = VPNRange_new(floor(TRAP_CONTEXT_BASE), floor(TRAMPOLINE))
        /\ as[i].map_type = "Framed"
        /\ as[i].map_permission = {"R", "W"}
        /\ DOMAIN as[i].data_frame = {floor(TRAP_CONTEXT_BASE)}}

C6_MapCritical ==
    \A se \in Calls, p \in Perms :
        HasCritical(Target(se)) => map_memory(MS, se[1], se[2], p) = Ret("CriticalArea", MS)

\* C6 witness: map_memory was refused as critical in an address space whose
\* trap-context area overlaps every range holding the trap-context page
C6_Witness ==
    /\ last = [op |-> "map_memory", res |-> "CriticalArea"]
    /\ TrapArea(areas) # {}

\* C7: on a range without critical page unmap_memory fails with ContainUnmapped
\* exactly when a page of the range is covered by no area, and then changes nothing
C7_UnmapIffCovered ==
    \A se \in Calls :
        LET r == unmap_memory(MS, se[1], se[2])
            hole == \E v \in RangeSet(Target(se)) : ~Covered(areas, v)
        IN ~HasCritical(Target(se)) =>
             /\ r.res = "ContainUnmapped" <=> hole
             /\ hole => r.ms = MS

\* C8: after a successful unmap_memory no area contains a page of the range,
\* every frame owned for a page of the range is free and every page-table entry
\* of the range is invalid
C8_UnmapClearsTarget ==
    \A se \in Calls :
        LET r == unmap_memory(MS, se[1], se[2])
        IN r.res = "Ok" =>
             \A v \in RangeSet(Target(se)) :
                 /\ ~Covered(r.ms.areas, v)
                 /\ ~r.ms.pt.entries[v].valid
                 /\ \A i \in 1 .. Len(areas) :
                        v \in DOMAIN areas[i].data_frame
                            => areas[i].data_frame[v] \in r.ms.free

\* what an area says about a page it covers: kind, permission, frame owned
View(a, v) ==
    << a.map_type, a.map_permission,
       IF v \in DOMAIN a.data_frame THEN a.data_frame[v] ELSE 0 >>
Views(as, v) == {View(as[i], v) : i \in Covering(as, v)}

\* C9: a successful unmap_memory changes nothing outside its range: each page
\* outside is covered by as many areas as before, of the same kind and permission
\* and owning the same frame, its page-table entry is the same, and the areas
\* that do not meet the range are kept as they were
C9_UnmapFrame ==
    \A se \in Calls :
        LET r == unmap_memory(MS, se[1], se[2])
            T == RangeSet(Target(se))
        IN r.res = "Ok" =>
             /\ \A v \in VPNs \ T :
                    /\ Views(r.ms.areas, v) = Views(areas, v)
                    /\ Cardinality(Covering(r.ms.areas, v)) = Cardinality(Covering(areas, v))
                    /\ r.ms.pt.entries[v] = page_table.entries[v]
             /\ \A i \in 1 .. Len(areas) :
                    RangeSet(areas[i].vpn_range) \cap T = {}
                        => \E j \in 1 .. Len(r.ms.areas) : r.ms.areas[j] = areas[i]
             /\ \A f \in PPNs :
                    Owners(areas, f) # {} /\ (\A iv \in Owners(areas, f) : iv[2] \notin T)
                        => Owners(r.ms.areas, f) # {} /\ f \notin r.ms.free

\* C9 witness: unmap_memory has cut the end off an area that still owns a frame
C9_Witness ==
    /\ last = [op |-> "unmap_memory", res |-> "Ok"]
    /\ \E i \in 1 .. Len(areas) :
           /\ areas[i].data_frame # << >>
           /\ areas[i].vpn_range.end \in VPNs
           /\ DirOf(areas[i].vpn_range.end) \in page_table.dirs
           /\ ~page_table.entries[areas[i].vpn_range.end].valid
           /\ ~Covered(areas, areas[i].vpn_range.end)

\* C10: split moves the frames and neither makes nor loses one: for every area
\* and every split point the two parts own disjoint frames, together the frames
\* of the area, and the left part owns those of the pages below the point
C10_SplitPreservesFrames ==
    \A i \in 1 .. Len(areas), p \in 0 .. TopVPN + 1 :
        LET a == areas[i]
            l == split(a, p)[1]
            r == split(a, p)[2]
        IN /\ DOMAIN l.data_frame \cap DOMAIN r.data_frame = {}
           /\ Frames(l) \cap Frames(r) = {}
           /\ DOMAIN l.data_frame \cup DOMAIN r.data_frame = DOMAIN a.data_frame
           /\ \A v \in DOMAIN l.data_frame : l.data_frame[v] = a.data_frame[v]
           /\ \A v \in DOMAIN r.data_frame : r.data_frame[v] = a.data_frame[v]
           /\ DOMAIN l.data_frame = {v \in DOMAIN a.data_frame : v < p}

\* C10 witness: unmap_memory has split an area that owned frames on both sides
\* of the range it removed
C10_Witness ==
    /\ last = [op |-> "unmap_memory", res |-> "Ok"]
    /\ \E i \in 1 .. Len(areas), j \in 1 .. Len(areas) :
           /\ areas[i].data_frame # << >>
           /\ areas[j].data_frame # << >>
           /\ areas[i].vpn_range.end + 1 = areas[j].vpn_range.start
           /\ ~Covered(areas, areas[i].vpn_range.end)

\* ranges of whole pages
Ranges == {se \in PageBounds \X PageBounds : se[1] <= se[2]}

\* an area over [s, e) mapped and filled as push does before it stores the area
EagerFilled(ms, s, e, p) ==
    Let(map(MapArea_new(s, e, "Framed", p), ms), LAMBDA r1 :
        IF r1.res # "Ok" THEN r1 ELSE check_all_page(r1.a, r1.ms))

\* C11 as claimed: after the eager fill of a fresh area and its unmap the free
\* pool counts as many frames as before the fill, and translate fails with
\* PageInvalid on every page of the area
C11_RoundTripCount ==
    \A se \in Ranges :
        LET f == EagerFilled(MS, se[1], se[2], RWU)
            u == unmap(f.a, f.ms)
        IN f.res = "Ok" =>
             /\ u.res = "Ok"
             /\ Cardinality(u.ms.free) = Cardinality(free)
             /\ \A v \in RangeSet(Target(se)) :
                    PageTable_translate(u.ms, v).res = "PageInvalid"

\* C11 amended: after the eager fill of a fresh area and its unmap the area owns
\* no frame and every data frame is back in the free pool; the free pool lacks
\* exactly the directory frames the page table allocated during the fill, and
\* translate fails with PageInvalid on every page of the area
C11_RoundTripFrames ==
    \A se \in Ranges :
        LET f == EagerFilled(MS, se[1], se[2], RWU)
            u == unmap(f.a, f.ms)
        IN f.res = "Ok" =>
             /\ u.res = "Ok"
             /\ u.a.data_frame = << >>
             /\ page_table.frames \subseteq u.ms.pt.frames
             /\ u.ms.free = free \ (u.ms.pt.frames \ page_table.frames)
             /\ Cardinality(u.ms.pt.frames \ page_table.frames)
                  = Cardinality({DirOf(v) : v \in RangeSet(Target(se))} \ page_table.dirs)
             /\ \A v \in RangeSet(Target(se)) :
                    PageTable_translate(u.ms, v).res = "PageInvalid"

\* C11 witness: the eager fill of a two-page area succeeds here, takes frames for
\* the data and one for a directory, and the unmap returns the data frames
C11_Witness ==
    \E se \in Ranges :
        LET f == EagerFilled(MS, se[1], se[2], RWU)
            u == unmap(f.a, f.ms)
        IN /\ f.res = "Ok"
           /\ Cardinality(DOMAIN f.a.data_frame) = 2
           /\ u.res = "Ok"
           /\ Cardinality(u.ms.free) = Cardinality(free) - 1
           /\ Cardinality(f.ms.free) = Cardinality(free) - 3

\* the data frames the areas own, counted
RECURSIVE OwnedCount(_)
OwnedCount(as) ==
    IF as = << >> THEN 0
    ELSE Cardinality(DOMAIN Head(as).data_frame) + OwnedCount(Tail(as))

\* one touch through transform of each page lo .. hi - 1, up to the first error
RECURSIVE TouchPages(_, _, _)
TouchPages(ms, lo, hi) ==
    IF lo >= hi THEN Ret("Ok", ms)
    ELSE Let(transform(ms, lo), LAMBDA r :
         IF r.res # "Ok" THEN Ret(r.res, r.ms) ELSE TouchPages(r.ms, lo + 1, hi))

\* C12: a lazy insertion over L pages allocates no frame; a following
\* check_all_page of the new area, or one touch of each of its pages through
\* transform, allocates exactly L data frames, one per page, and a repeated fill
\* allocates none; an eager insertion over L pages allocates L data frames
C12_LazyEager ==
    \A se \in Ranges :
        LET T == Target(se)
            L == Cardinality(RangeSet(T))
            lz == insert_framed_area_lazy(MS, se[1], se[2], RWU)
            new == Len(lz.ms.areas)
            fill == check_all_page(lz.ms.areas[new], lz.ms)
            again == check_all_page(fill.a, fill.ms)
            touch == TouchPages(lz.ms, T.start, T.end)
            retouch == TouchPages(touch.ms, T.start, T.end)
            eager == insert_framed_area(MS, se[1], se[2], RWU)
        IN /\ lz.res = "Ok"
           /\ lz.ms.areas[new].data_frame = << >>
           /\ lz.ms.free = free /\ lz.ms.pt = page_table
           /\ fill.res = "Ok" =>
                /\ DOMAIN fill.a.data_frame = RangeSet(T)
                /\ Cardinality(Frames(fill.a)) = L
                /\ again = fill
           /\ touch.res = "Ok" =>
                /\ OwnedCount(touch.ms.areas) = OwnedCount(areas) + L
                /\ retouch = touch
           /\ eager.res = "Ok" =>
                /\ DOMAIN eager.ms.areas[new].data_frame = RangeSet(T)
                /\ OwnedCount(eager.ms.areas) = OwnedCount(areas) + L

\* the byte read back at va through translate and the physical page
ReadByte(ms, va) ==
    LET t == PageTable_translate(ms, floor(va))
    IN IF t.res # "Ok" THEN -1 ELSE ms.mem[t.pte.ppn][va % PAGE_SIZE]

\* C13: after copy_data(data) has succeeded on an area that has the pages the
\* data needs, byte i of the data is read back, through translate, at offset
\* i mod PAGE_SIZE of the frame mapped at page start + i div PAGE_SIZE
C13_CopyDataReadBack ==
    \A i \in 1 .. Len(areas), data \in Datas :
        LET a == areas[i]
            r == copy_data(a, MS, data)
        IN a.vpn_range.start \in VPNs /\ ~copy_data_panics(a, data) /\ r.res = "Ok" =>
             \A k \in 0 .. Len(data) - 1 :
                 LET t == PageTable_translate(r.ms, a.vpn_range.start + k \div PAGE_SIZE)
                 IN /\ t.res = "Ok"
                    /\ r.ms.mem[t.pte.ppn][k % PAGE_SIZE] = data[k + 1]
                    /\ ReadByte(r.ms, a.vpn_range.start * PAGE_SIZE + k) = data[k + 1]

\* C13 witness: copy_data has succeeded and an area of two pages reads back a
\* buffer of two full pages
C13_Witness ==
    /\ last = [op |-> "copy_data", res |-> "Ok"]
    /\ \E i \in 1 .. Len(areas) :
           /\ Cardinality(RangeSet(areas[i].vpn_range)) = 2
           /\ areas[i].map_permission = RWU
           /\ \A k \in 0 .. 2 * PAGE_SIZE - 1 :
                  ReadByte(MS, areas[i].vpn_range.start * PAGE_SIZE + k)
                      = IF k < PAGE_SIZE THEN 1 ELSE 2

\* C14: sys_mmap with a start that is not page-aligned, or with none of the low
\* three permission bits, or with a bit above them, returns -1 and leaves the
\* address space as it was; so does sys_munmap with a start not page-aligned
C14_SyscallRejects ==
    /\ \A start \in StartVAs, len \in Lens, port \in Ports :
           (InSpace(start, len)
               /\ (start % PAGE_SIZE # 0 \/ ~(\E k \in 0 .. 2 : Bit(port, k))
                      \/ (\E k \in 3 .. 7 : Bit(port, k))))
               => sys_mmap(MS, start, len, port) = [res |-> -1, ms |-> MS]
    /\ \A start \in StartVAs, len \in Lens :
           InSpace(start, len) /\ start % PAGE_SIZE # 0
               => sys_munmap(MS, start, len) = [res |-> -1, ms |-> MS]

\* C14 witness: sys_mmap has returned -1, and here a request is refused for its
\* permission argument alone: with the low bits of the same argument it succeeds
C14_Witness ==
    /\ last.op = "sys_mmap" /\ last.res = -1
    /\ \E start \in StartVAs, len \in Lens :
           /\ InSpace(start + 1, len)
           /\ sys_mmap(MS, start, len, 11).res = -1
           /\ sys_mmap(MS, start, len, 3).res = 0
           /\ sys_mmap(MS, start, len, 0).res = -1
           /\ sys_mmap(MS, start + 1, len, 3).res = -1

\* the managers find_next_task is applied to: the scheduler calls it after
\* mark_current_suspended or mark_current_exited
Scanned == {TM, mark_current_suspended(TM), mark_current_exited(TM)}

ReadyTasks(tm) == {i \in Tasks : tm.tasks[i].task_status = "Ready"}

\* the place of task i in the cyclic order that starts after the current task
Turn(tm, i) == (i + NumApp - tm.current_task - 1) % NumApp

\* C15: find_next_task returns none exactly when no task is Ready; otherwise it
\* returns a Ready task, the first one in cyclic order from current_task + 1,
\* the current task being the last one examined
C15_FirstReadyCyclic ==
    \A tm \in Scanned :
        LET r == find_next_task(tm)
        IN /\ r.some <=> ReadyTasks(tm) # {}
           /\ ~r.some => r = NoTask
           /\ r.some =>
                 /\ tm.tasks[r.id].task_status = "Ready"
                 /\ \A j \in ReadyTasks(tm) : Turn(tm, r.id) <= Turn(tm, j)
                 /\ Turn(tm, tm.current_task) = NumApp - 1

\* C15 witness: tasks 2 and 5 alone are Ready, the current task is 0 and the
\* scheduler has switched before; find_next_task returns 2, and after the
\* current task is suspended it still returns 2, not the current task
C15_Witness ==
    /\ last.op = "suspend_current_and_run_next"
    /\ current_task = 0
    /\ ReadyTasks(TM) = {2, 5}
    /\ find_next_task(TM) = SomeTask(2)
    /\ find_next_task(mark_current_suspended(TM)) = SomeTask(2)

Exited(tm) == {i \in Tasks : tm.tasks[i].task_status = "Exited"}

\* C16: a task that is Exited stays Exited through every run_first_task,
\* suspend_current_and_run_next and exit_current_and_run_next, and the task a
\* step makes current was not Exited before the step and is not Exited after it
C16_ExitedTerminal ==
    [][/\ Exited(TM) \subseteq {i \in Tasks : tasks'[i].task_status = "Exited"}
       /\ kernel' = "run" =>
              /\ tasks[current_task'].task_status # "Exited"
              /\ tasks'[current_task'].task_status # "Exited"]_vars

\* C16 witness: every task but the current one is Exited and the current task
\* has just yielded: the scan went over all the Exited tasks and took none
C16_Witness ==
    /\ last.op = "suspend_current_and_run_next"
    /\ kernel = "run"
    /\ current_task = 3
    /\ Exited(TM) = Tasks \ {current_task}

Running(tm) == {i \in Tasks : tm.tasks[i].task_status = "Running"}

\* C17: after run_first_task and after every suspend_current_and_run_next or
\* exit_current_and_run_next that found a Ready task, exactly one task is
\* Running and it is tasks[current_task]; at no point are two tasks Running,
\* neither between the operations nor after the current task is marked
C17_OneRunning ==
    /\ kernel = "run" => Running(TM) = {current_task}
    /\ \A tm \in Scanned : Cardinality(Running(tm)) <= 1

\* C17 witness: a task has exited, the scheduler found a Ready task and switched
\* to it, and another task that ran before is waiting Ready
C17_Witness ==
    /\ last.op = "exit_current_and_run_next"
    /\ kernel = "run"
    /\ current_task # 0
    /\ Running(TM) = {current_task}
    /\ Exited(TM) # {}
    /\ \E i \in ReadyTasks(TM) : tasks[i].task_info.is_dispatched

\* C18: a task that becomes Running with is_dispatched false gets the clock
\* value of that moment as start_time and is_dispatched true; once is_dispatched
\* is true neither field changes again, however often the task is scheduled;
\* a task not yet scheduled keeps TaskInfo::new, and a Running task is dispatched
C18_StartTimeOnce ==
    [][\A i \in Tasks :
          LET info == tasks[i].task_info
              info2 == tasks'[i].task_info
          IN /\ info.is_dispatched => info2 = info
             /\ (~info.is_dispatched /\ tasks'[i].task_status = "Running")
                    => info2 = [is_dispatched |-> TRUE, start_time |-> time']
             /\ (~info.is_dispatched /\ tasks'[i].task_status # "Running")
                    => info2 = TaskInfo_new
             /\ tasks'[i].task_status = "Running" => info2.is_dispatched]_vars

\* C18 witness: the current task was stamped at its first dispatch and has
\* been scheduled again at a later clock value; another task was stamped later
C18_Witness ==
    /\ last.op = "suspend_current_and_run_next"
    /\ kernel = "run"
    /\ tasks[current_task].task_info.is_dispatched
    /\ tasks[current_task].task_info.start_time = 0
    /\ time = MaxTime
    /\ \E i \in ReadyTasks(TM) :
           /\ tasks[i].task_info.is_dispatched
           /\ tasks[i].task_info.start_time = 1

\* the pages of the section from start to end
SectionPages(sec) == {v \in VPNs : floor(sec.start) <= v /\ v < ceil(sec.end)}

\* C19: in the kernel address space built by new_kernel every page of .text,
\* .rodata, .data, .bss and of the physical memory above the kernel translates
\* to the frame of the same number with the permission set of its section
\* (R|X, R, R|W, R|W, R|W), and remap_test passes
C19_KernelIdentity ==
    origin.ctor = "new_kernel" =>
        /\ \A i \in 1 .. 5 :
               LET sec == KernelSections(origin.elf)[i]
               IN /\ areas[i].map_type = "Identical"
                  /\ areas[i].data_frame = << >>
                  /\ \A v \in SectionPages(sec) :
                         LET t == PageTable_translate(MS, v)
                         IN /\ t.res = "Ok"
                            /\ t.pte.ppn = v
                            /\ t.pte.flags = sec.perm
        /\ remap_test(MS, origin.elf) = "passed"

\* C19 witness: a kernel whose .text has two pages, after remap_test ran on
\* it and passed
C19_Witness ==
    /\ origin.ctor = "new_kernel"
    /\ last = [op |-> "remap_test", res |-> "passed"]
    /\ origin.elf.etext - origin.elf.stext = 2 * PAGE_SIZE
    /\ PageTable_translate(MS, floor(origin.elf.stext) + 1).pte.flags = {"R", "X"}

\* the framed areas a fill runs on: the areas of the set, filled over any
\* range as transform and copy_data do, and fresh ones, filled whole as push does
SetAreas == {areas[i] : i \in {j \in 1 .. Len(areas) : areas[j].map_type = "Framed"}}
FreshAreas == {MapArea_new(se[1], se[2], "Framed", RWU) : se \in Ranges}

\* the state a failed fill of vpn_range leaves, against the state before it:
\* the pages before the failed one own a frame taken from the pool and are
\* mapped to it, the failed page and the pages after it are as they were, and
\* the pool lost the frames now owned and the new page-table frames, no other
RolledBack(a, ms, r, vpn_range) ==
    LET i == intersection(a.vpn_range, vpn_range)
        todo == {v \in VPNs : i.start <= v /\ v < i.end /\ v \notin DOMAIN a.data_frame}
        new == DOMAIN r.a.data_frame \ DOMAIN a.data_frame
        taken == {r.a.data_frame[v] : v \in new}
    IN /\ todo \ new # {}
       /\ new = {v \in todo : v < Min(todo \ new)}
       /\ \A v \in DOMAIN a.data_frame :
              v \in DOMAIN r.a.data_frame /\ r.a.data_frame[v] = a.data_frame[v]
       /\ \A v \in new :
              LET t == PageTable_translate(r.ms, v)
              IN t.res = "Ok" /\ t.pte.ppn = r.a.data_frame[v]
       /\ r.ms.pt.entries[Min(todo \ new)] = ms.pt.entries[Min(todo \ new)]
       /\ Cardinality(taken) = Cardinality(new)
       /\ taken \subseteq ms.free
       /\ ms.pt.frames \subseteq r.ms.pt.frames
       /\ r.ms.free = ms.free \ (taken \cup r.ms.pt.frames)

\* C20: when check_page_raw has taken a frame for a page and the page-table
\* insertion fails, the area and the pool are what they were before the page
\* was attempted; a check_range that fails keeps the frames of the earlier
\* pages owned and mapped, and every frame that left the pool is owned by the
\* area or is a page-table frame
C20_FillRollsBack ==
    /\ \A a \in SetAreas \cup FreshAreas :
           \A v \in {w \in VPNs : is_contains(a.vpn_range, w)} :
               LET r == check_page_raw(a, MS, v)
               IN r.res # "Ok" =>
                      /\ r.a = a
                      /\ r.ms.pt.entries = page_table.entries
                      /\ r.ms.free = free \ r.ms.pt.frames
    /\ \A a \in SetAreas, se \in Ranges :
           LET vpn_range == VPNRange_new(floor(se[1]), ceil(se[2]))
               r == check_range(a, MS, vpn_range)
           IN r.res # "Ok" => RolledBack(a, MS, r, vpn_range)
    /\ \A a \in FreshAreas :
           LET r == check_all_page(a, MS)
           IN r.res # "Ok" => RolledBack(a, MS, r, a.vpn_range)

\* C20 witness: an eager insertion has failed on a page that was mapped
\* already, and here a fill of a fresh area fails the same way on its second
\* page, with a frame to take for it: the first page keeps its frame
C20_Witness ==
    /\ last = [op |-> "insert_framed_area", res |-> "PageAlreadyAlloc"]
    /\ free # {}
    /\ \E se \in Ranges :
           LET a == MapArea_new(se[1], se[2], "Framed", RWU)
               r == check_all_page(a, MS)
           IN /\ r.res = "PageAlreadyAlloc"
              /\ DOMAIN r.a.data_frame = {a.vpn_range.start}
              /\ Cardinality(r.ms.free) >= 1

\* the pages whose valid entry points to a pool frame that no area of ms owns
\* for that page
Dangling(ms) ==
    {v \in VPNs :
        /\ ms.pt.entries[v].valid
        /\ ms.pt.entries[v].ppn \in PPNs
        /\ ~\E i \in 1 .. Len(ms.areas) :
               /\ v \in DOMAIN ms.areas[i].data_frame
               /\ ms.areas[i].data_frame[v] = ms.pt.entries[v].ppn}

\* C21: every valid page-table entry installed for a frame-backed page points
\* to a frame that an area of the set owns for that page; in particular an
\* eager insertion that fails part-way leaves no valid entry for the area it
\* gave up
C21_NoDangling ==
    /\ Dangling(MS) = {}
    /\ \A se \in Ranges :
           LET r == insert_framed_area(MS, se[1], se[2], RWU)
           IN r.res # "Ok" => Dangling(r.ms) = {}

\* the pages whose entry is valid in ms2 and not in ms1
Installed(ms1, ms2) == {v \in VPNs : ms2.pt.entries[v].valid /\ ~ms1.pt.entries[v].valid}

PagesOf(r) == {v \in VPNs : is_contains(r, v)}

\* C22: after narrow(to) or expand(to) of an area, Ok or Err, every entry the
\* call installed lies inside the vpn_range the area records and every entry it
\* removed lies outside it
C22_RangeAtomic ==
    \A i \in 1 .. Len(areas) :
        /\ \A to \in areas[i].vpn_range.end .. TopVPN + 1 :
               LET r == expand(areas[i], MS, to)
               IN /\ Installed(MS, r.ms) \subseteq PagesOf(r.a.vpn_range)
                  /\ Installed(r.ms, MS) \cap PagesOf(r.a.vpn_range) = {}
        /\ \A to \in areas[i].vpn_range.start .. areas[i].vpn_range.end :
               LET r == narrow(areas[i], MS, to)
               IN /\ Installed(MS, r.ms) \subseteq PagesOf(r.a.vpn_range)
                  /\ Installed(r.ms, MS) \cap PagesOf(r.a.vpn_range) = {}

\* the ownership invariant of one area
Owns(a) ==
    IF a.map_type = "Framed" THEN DOMAIN a.data_frame \subseteq PagesOf(a.vpn_range)
    ELSE a.data_frame = << >>

\* Identical areas as MapArea::new builds them
FreshIdentical == {MapArea_new(se[1], se[2], "Identical", {"R", "W"}) : se \in Ranges}

\* buffers of every length up to two pages
Fills == {[k \in 1 .. n |-> 1] : n \in 0 .. 2 * PAGE_SIZE}

\* the areas one operation of MapArea leaves, each applied to a in the address
\* space ms: check_range over any range, split at any page, narrow and expand
\* to any page the range allows, map, unmap, and copy_data where it does not panic
AfterOps(a, ms) ==
    {check_range(a, ms, VPNRange_new(floor(se[1]), ceil(se[2]))).a : se \in Ranges}
        \cup {split(a, p)[1] : p \in 0 .. TopVPN + 1}
        \cup {split(a, p)[2] : p \in 0 .. TopVPN + 1}
        \cup {narrow(a, ms, to).a : to \in a.vpn_range.start .. a.vpn_range.end}
        \cup {expand(a, ms, to).a : to \in a.vpn_range.end .. TopVPN + 1}
        \cup {map(a, ms).a, unmap(a, ms).a}
        \cup {copy_data(a, ms, d).a :
                 d \in {x \in Fills : a.map_type = "Framed" /\ a.vpn_range.start \in VPNs
                                          /\ ~copy_data_panics(a, x)}}

\* C23: in every reachable state each Framed area owns frames only for pages
\* of its vpn_range and each Identical area owns none, and this holds again
\* after check_range with any range, split, narrow, expand, unmap and copy_data
C23_OwnershipInvariant ==
    /\ \A i \in 1 .. Len(areas) :
           /\ Owns(areas[i])
           /\ \A b \in AfterOps(areas[i], MS) : Owns(b)
    /\ \A a \in FreshIdentical : \A b \in AfterOps(a, MS) : Owns(b)

\* C23 witness: a lazy area has one of its pages filled by transform and not
\* all; a check_range that asks for the whole address space fills the rest of
\* the area and nothing outside it
C23_Witness ==
    /\ last = [op |-> "transform", res |-> "Ok"]
    /\ \E i \in 1 .. Len(areas) :
           LET a == areas[i]
               r == check_range(a, MS, VPNRange_new(0, TopVPN + 1))
           IN /\ a.map_type = "Framed"
              /\ a.data_frame # << >>
              /\ DOMAIN a.data_frame # PagesOf(a.vpn_range)
              /\ a.vpn_range.start > 0
              /\ r.res = "Ok"
              /\ DOMAIN r.a.data_frame = PagesOf(a.vpn_range)

\* C24: split(vpn) of an area returns (empty, the area) when vpn is at or
\* before its start, (the area, empty) when vpn is at or after its end, and
\* otherwise a left part over [start, vpn) and a right part over [vpn, end);
\* the two ranges are disjoint, together the range of the area, and both parts
\* have its map type and permission
C24_SplitPartitions ==
    \A i \in 1 .. Len(areas), p \in 0 .. TopVPN + 1 :
        LET a == areas[i]
            l == split(a, p)[1]
            r == split(a, p)[2]
        IN /\ p <= a.vpn_range.start => PagesOf(l.vpn_range) = {} /\ r = a
           /\ (p > a.vpn_range.start /\ p >= a.vpn_range.end)
                  => l = a /\ PagesOf(r.vpn_range) = {}
           /\ (a.vpn_range.start < p /\ p < a.vpn_range.end)
                  => /\ l.vpn_range = [start |-> a.vpn_range.start, end |-> p]
                     /\ r.vpn_range = [start |-> p, end |-> a.vpn_range.end]
           /\ PagesOf(l.vpn_range) \cap PagesOf(r.vpn_range) = {}
           /\ PagesOf(l.vpn_range) \cup PagesOf(r.vpn_range) = PagesOf(a.vpn_range)
           /\ l.map_type = a.map_type /\ r.map_type = a.map_type
           /\ l.map_permission = a.map_permission
           /\ r.map_permission = a.map_permission

\* C24 witness: unmap_memory has cut one page out of the middle of an area,
\* which takes a split with two non-empty parts; the two areas left have the
\* permission of the area and the page between them is in no area
C24_Witness ==
    /\ last = [op |-> "unmap_memory", res |-> "Ok"]
    /\ \E i, j \in 1 .. Len(areas) :
           /\ areas[i].vpn_range.start < areas[i].vpn_range.end
           /\ areas[i].vpn_range.end + 1 = areas[j].vpn_range.start
           /\ areas[j].vpn_range.start < areas[j].vpn_range.end
           /\ areas[i].map_permission = {"R", "U"}
           /\ areas[j].map_permission = {"R", "U"}
           /\ ~Covered(areas, areas[i].vpn_range.end)

\* the pages for which the areas of ms own a frame, with the owning area
Resident(ms) ==
    {iv \in (1 .. Len(ms.areas)) \X VPNs : iv[2] \in DOMAIN ms.areas[iv[1]].data_frame}

\* C25: transform(vpn) fails with NotInclude, with the address space as it was,
\* when no area contains vpn, also for the trampoline page; otherwise it
\* commits at most one data frame, taken from the pool, for vpn alone and only
\* when vpn had neither a frame nor a valid entry, changes the entry of no
\* other page, takes from the pool nothing but that frame and page-table
\* frames, and when it returns Ok it returns the valid entry of vpn
C25_TransformOnePage ==
    \A vpn \in VPNs :
        LET r == transform(MS, vpn)
            new == Resident(r.ms) \ Resident(MS)
        IN IF ~Covered(areas, vpn)
           THEN r = [res |-> "NotInclude", ms |-> MS, pte |-> NoPTE]
           ELSE /\ r.res # "NotInclude"
                /\ Len(r.ms.areas) = Len(areas)
                /\ Resident(MS) \subseteq Resident(r.ms)
                /\ \A iv \in Resident(MS) :
                       r.ms.areas[iv[1]].data_frame[iv[2]] = areas[iv[1]].data_frame[iv[2]]
                /\ Cardinality(new) <= 1
                /\ \A iv \in new :
                       /\ iv[2] = vpn
                       /\ ~page_table.entries[vpn].valid
                       /\ r.ms.areas[iv[1]].data_frame[vpn] \in free
                       /\ r.res = "Ok"
                /\ \A w \in VPNs \ {vpn} : r.ms.pt.entries[w] = page_table.entries[w]
                /\ free \ r.ms.free
                       = {r.ms.areas[iv[1]].data_frame[iv[2]] : iv \in new}
                             \cup (r.ms.pt.frames \ page_table.frames)
                /\ r.res = "Ok" => r.pte = r.ms.pt.entries[vpn] /\ r.pte.valid
                /\ new = {} /\ r.res = "Ok" => r.ms = MS

\* C25 witness: in an address space built by from_elf a transform has just
\* filled a page; the trampoline page is mapped and transform refuses it with
\* NotInclude, and a page of a lazy area that is not filled yet gets one frame
C25_Witness ==
    /\ origin.ctor = "from_elf"
    /\ last = [op |-> "transform", res |-> "Ok"]
    /\ page_table.entries[floor(TRAMPOLINE)].valid
    /\ transform(MS, floor(TRAMPOLINE)).res = "NotInclude"
    /\ \E vpn \in VPNs :
           /\ Covered(areas, vpn)
           /\ transform(MS, vpn).res = "Ok"
           /\ Cardinality(Resident(transform(MS, vpn).ms) \ Resident(MS)) = 1

\* ------------------------------------------------- context-switch protocol

\* C26: at every __switch (in run_first_task, run_next_task, run_tasks and
\* schedule) no exclusive-access guard is held: not on the task manager's
\* cell, not on the PROCESSOR cell, not on a task's inner cell; and the first
\* exclusive access of the context that is resumed never finds its cell held,
\* so the kernel never panics on a second borrow.
C26_GuardsReleasedAtSwitch ==
    /\ cpu.sw.some => cpu.sw.held = {}
    /\ cpu.pc \in {"resume", "rft_switch", "rnt_switch", "rt_switch", "sch_switch"}
           => cpu.held = {}
    /\ cpu.pc # "panic"

\* run_next_task has switched to another task with the guard released, and the
\* resumed task has made its first exclusive access and reached user mode
C26_Witness ==
    /\ cpu.sw.some
    /\ cpu.sw.from = "rnt_switch"
    /\ cpu.sw.save # cpu.sw.restore
    /\ cpu.sw.held = {}
    /\ cpu.pc = "user"

\* C27: with the processor every __switch has the idle context on exactly one
\* side, as the context saved (run_tasks) or the context restored (schedule),
\* never a task on both sides; and a task that run_tasks has just switched
\* into is already Running and is the processor's current task.
C27_IdleIsPivot ==
    cpu.variant = "processor" =>
        /\ cpu.sw.some =>
               /\ (cpu.sw.save = IdleCx) # (cpu.sw.restore = IdleCx)
               /\ cpu.sw.from = "rt_switch" <=> cpu.sw.save = IdleCx
               /\ cpu.sw.from = "sch_switch" <=> cpu.sw.restore = IdleCx
        /\ cpu.pc = "resume" =>
               /\ cpu.on \in Tasks
               /\ tasks[cpu.on].task_status = "Running"
               /\ cpu.current = SomeTask(cpu.on)
               /\ Running(TM) = {cpu.on}

\* run_tasks has switched into a task after an earlier task went back to the
\* idle context through schedule and exited
C27_Witness ==
    /\ cpu.variant = "processor"
    /\ cpu.pc = "resume"
    /\ cpu.sw.save = IdleCx
    /\ \E i \in Tasks : tasks[i].task_status = "Exited"
    /\ \E i \in Tasks : tasks[i].task_status = "Ready"

\* ------------------------------------------------------ round-robin fairness

\* C28: between scheduling operations of the task manager, a Ready task has
\* been passed over by at most num_app - 2 calls of run_next_task, so the
\* call that dispatches it is at the latest the (num_app - 1)-th after it was
\* found Ready: no Ready task is skipped again and again in favour of others.
C28_NoStarvation ==
    \A i \in Tasks :
        tasks[i].task_status = "Ready" => waited[i] <= NumApp - 2

\* a Ready task that num_app - 2 calls passed over: the next call runs it
C28_Witness ==
    /\ kernel = "run"
    /\ \E i \in Tasks :
           /\ tasks[i].task_status = "Ready"
           /\ waited[i] = NumApp - 2
           /\ suspend_current_and_run_next(TM, time).tm.tasks[i].task_status = "Running"

\* ------------------------------------------------------------- exhaustion

\* every task has exited
AllExited == \A i \in Tasks : tasks[i].task_status = "Exited"

\* C29: run_next_task halts with "All applications completed!" exactly when
\* no task is Ready at the call, after a yield and after an exit alike; the
\* kernel is never halted while a task is Ready; and if every task eventually
\* exits, the kernel eventually is halted with every task Exited.
C29_HaltIffNoReady ==
    /\ [](\A now \in time .. MaxTime :
              \A tm \in {TM, mark_current_suspended(TM), mark_current_exited(TM)} :
                  run_next_task(tm, now).res = "panic" <=> ReadyTasks(tm) = {})
    /\ [](kernel = "halt" => ReadyTasks(TM) = {})
    /\ (<>AllExited) => <>(kernel = "halt" /\ AllExited)

\* the last task has exited and run_next_task has halted the kernel
C29_Witness ==
    /\ kernel = "halt"
    /\ last = [op |-> "exit_current_and_run_next", res |-> "panic"]
    /\ AllExited

\* C30: when the Running task yields and no other task is Ready,
\* suspend_current_and_run_next selects the yielding task again: it is
\* Running after the call, current_task is the same, no other task changes,
\* and the call does not end in the panic of exhaustion.
C30_YieldReselectsSelf ==
    (kernel = "run" /\ ReadyTasks(TM) = {}) =>
        \A now \in time .. MaxTime :
            LET r == suspend_current_and_run_next(TM, now)
            IN /\ r.res = "Ok"
               /\ r.tm.current_task = current_task
               /\ r.tm.tasks[current_task].task_status = "Running"
               /\ find_next_task(mark_current_suspended(TM)) = SomeTask(current_task)
               /\ \A i \in Tasks \ {current_task} : r.tm.tasks[i] = tasks[i]

\* the only task left has yielded and runs on
C30_Witness ==
    /\ kernel = "run"
    /\ last = [op |-> "suspend_current_and_run_next", res |-> "Ok"]
    /\ ReadyTasks(TM) = {}
    /\ tasks[current_task].task_status = "Running"
    /\ \E i \in Tasks : tasks[i].task_status = "Exited"

\* ---------------------------------------------------------- syscall counters

\* the count of syscall id of task i: 0 when the map has no entry
Count(st, i, id) == IF id \in DOMAIN st[i] THEN st[i][id] ELSE 0

\* C31: syscall_counter(id) returns with the counter of id of the current
\* task one greater than before (1 when there was no entry) and every other
\* counter of every task as it was; and over every step of the kernel no
\* counter of any task and id decreases.
C31_CounterIncrements ==
    /\ [](kernel = "run" =>
             \A id \in 0 .. MaxSyscallId, overflow_checks \in BOOLEAN :
                 LET r == syscall_counter(syscall_times, current_task, id, overflow_checks)
                 IN /\ r.res = "Ok"
                    /\ Count(r.st, current_task, id) = Count(syscall_times, current_task, id) + 1
                    /\ \A i \in Tasks, k \in 0 .. MaxSyscallId :
                           (i # current_task \/ k # id)
                               => /\ Count(r.st, i, k) = Count(syscall_times, i, k)
                                  /\ k \in DOMAIN r.st[i] <=> k \in DOMAIN syscall_times[i])
    /\ [][\A i \in Tasks, k \in 0 .. MaxSyscallId :
              Count(syscall_times', i, k) >= Count(syscall_times, i, k)]_vars

\* C32: every key of the syscall_times of every task is below
\* MAX_SYSCALL_NUM, and set_syscall_times of the Running task fills the array
\* of sys_task_info without an index outside it, whatever ids
\* syscall_counter was called with.
C32_KeysInRange ==
    /\ \A i \in Tasks : DOMAIN syscall_times[i] \subseteq 0 .. MAX_SYSCALL_NUM - 1
    /\ kernel = "run" => set_syscall_times(syscall_times, current_task).res = "Ok"
    /\ last # [op |-> "sys_task_info", res |-> "panic"]

\* --------------------------------------------------------- permission checks

\* C33: check_writeable(va) returns Ok exactly when the page of va lies in an
\* area of the address space and its page-table entry, made resident by the
\* call if need be, is valid, readable and writable; on a page whose entry is
\* writable and not readable it returns Unwritable, and on a page of an area
\* mapped with W alone it never returns Ok.
C33_WriteNeedsRead ==
    \A va \in CheckVAs :
        LET r == check_writeable(MS, va)
            before == PageTable_translate(MS, floor(va))
            after == PageTable_translate(r.ms, floor(va))
        IN /\ r.res = "Ok" <=>
                  /\ Covered(areas, floor(va))
                  /\ after.res = "Ok"
                  /\ {"R", "W"} \subseteq after.pte.flags
           /\ (/\ Covered(areas, floor(va))
               /\ before.res = "Ok"
               /\ "W" \in before.pte.flags
               /\ "R" \notin before.pte.flags) => r.res = "Unwritable"
           /\ \A i \in Covering(areas, floor(va)) :
                  areas[i].map_permission = {"W", "U"}
                      => r.res \in {"Unwritable", "MemoryNotEnough"}

\* check_writeable has refused a resident page that sys_mmap mapped with the
\* W bit alone
C33_Witness ==
    /\ last.op = "check_writeable"
    /\ last.res = "Unwritable"
    /\ \E i \in 1 .. Len(areas) :
           /\ areas[i].map_permission = {"W", "U"}
           /\ \E v \in DOMAIN areas[i].data_frame :
                  /\ PageTable_translate(MS, v).res = "Ok"
                  /\ PageTable_translate(MS, v).pte.flags = {"W", "U"}

\* C34: for an address whose page-table entry, after the check has made the
\* page resident, is absent or lacks the U flag (the trap-context page of
\* from_elf, mapped R|W), none of check_readable, check_writeable and
\* check_executable returns Ok.
C34_ChecksNeedUser ==
    \A va \in CheckVAs :
        LET rd == check_readable(MS, va)
            wr == check_writeable(MS, va)
            ex == check_executable(MS, va)
        IN /\ rd.res = "Ok" => "U" \in PageTable_translate(rd.ms, floor(va)).pte.flags
           /\ wr.res = "Ok" => "U" \in PageTable_translate(wr.ms, floor(va)).pte.flags
           /\ ex.res = "Ok" => "U" \in PageTable_translate(ex.ms, floor(va)).pte.flags

\* ----------------------------------------------------------- user stack

\* the Load headers of an image, in order
LoadHeaders(elf) == SelectSeq(elf, LAMBDA ph : ph.type = "Load")

\* the end page of the area of a Load header
SegmentEnd(ph) == ceil(ph.virtual_addr + ph.mem_size)

\* C35: in the address space from_elf builds, whatever the Load headers and
\* their order, the user stack begins one guard page above the greatest end
\* page of the segments, the guard page and the stack lie in no segment, and
\* the growth area is empty and starts at the top of the stack.
C35_StackAboveSegments ==
    (origin.ctor = "from_elf" /\ LoadHeaders(origin.elf) # << >>) =>
        LET n == Len(LoadHeaders(origin.elf))
            top == CHOOSE t \in {SegmentEnd(LoadHeaders(origin.elf)[i]) : i \in 1 .. n} :
                       \A i \in 1 .. n : SegmentEnd(LoadHeaders(origin.elf)[i]) <= t
            stack == areas[n + 1]
            growth == areas[n + 2]
        IN /\ stack.vpn_range.start = top + 1
           /\ stack.vpn_range.end = top + 1 + USER_STACK_SIZE \div PAGE_SIZE
           /\ \A i \in 1 .. n :
                  /\ ~is_contains(areas[i].vpn_range, top)
                  /\ ~intersects(areas[i].vpn_range, stack.vpn_range)
           /\ growth.vpn_range = VPNRange_new(stack.vpn_range.end, stack.vpn_range.end)

\* ------------------------------------------------------------ region unmap

\* C36: MapArea::unmap of a frame-backed area of the set returns Ok whether
\* its pages were filled or not and whether their directory exists or not; it
\* leaves the area without frames, its range as it was and no entry of its
\* pages valid; and a second unmap returns Ok and changes neither the area
\* nor the pool nor the page table.
C36_UnmapIdempotent ==
    \A i \in 1 .. Len(areas) :
        areas[i].map_type = "Framed" =>
            LET first == unmap(areas[i], MS)
                second == unmap(first.a, first.ms)
            IN /\ first.res = "Ok"
               /\ first.a.data_frame = << >>
               /\ first.a.vpn_range = areas[i].vpn_range
               /\ first.ms.free = free \cup Frames(areas[i])
               /\ \A v \in PagesOf(areas[i].vpn_range) :
                      PageTable_translate(first.ms, v).res # "Ok"
               /\ second.res = "Ok"
               /\ second.a = first.a
               /\ second.ms = first.ms

\* an area with a filled page, a page never filled and a page whose directory
\* is absent
C36_Witness ==
    \E i \in 1 .. Len(areas) :
        /\ areas[i].map_type = "Framed"
        /\ \E u, v, w \in PagesOf(areas[i].vpn_range) :
               /\ u \in DOMAIN areas[i].data_frame
               /\ PageTable_translate(MS, v).res = "PageInvalid"
               /\ PageTable_translate(MS, w).res = "DirPageInvalid"
        /\ unmap(unmap(areas[i], MS).a, unmap(areas[i], MS).ms).res = "Ok"

\* ------------------------------------------------------- copy_data pages

\* the first n pages of an area
FirstPages(a, n) == {v \in PagesOf(a.vpn_range) : v < a.vpn_range.start + n}

\* C37: for every frame-backed area and every data of 0 bytes up to the size
\* of the area, copy_data computes ceil(len / PAGE_SIZE) pages in either
\* build, fails neither assertion, fills those pages from the start of the
\* area and no page beyond them, and with empty data computes 0 pages, fills
\* nothing and returns Ok with the area and the address space as they were.
C37_CopyDataPages ==
    \A i \in 1 .. Len(areas), data \in Datas, overflow_checks \in BOOLEAN :
        LET a == areas[i]
            r == copy_data(a, MS, data)
        IN (/\ a.map_type = "Framed"
            /\ a.vpn_range.start \in VPNs
            /\ Len(data) <= Cardinality(RangeSet(a.vpn_range)) * PAGE_SIZE) =>
               /\ ~copy_data_underflows(data, overflow_checks)
               /\ copy_data_pages(data) = ceil(Len(data))
               /\ ~copy_data_panics(a, data)
               /\ DOMAIN r.a.data_frame
                      \subseteq DOMAIN a.data_frame \cup FirstPages(a, ceil(Len(data)))
               /\ r.res = "Ok" => FirstPages(a, ceil(Len(data))) \subseteq DOMAIN r.a.data_frame
               /\ Len(data) = 0 => (r.res = "Ok" /\ r.a = a /\ r.ms = MS)

\* ---------------------------------------------------------- kernel stacks

\* the stacks computed so far for task ids within the address range
Stacked == {i \in Tasks : kernel_stack[i].some /\ InAddressRange(i)}

\* C38 as stated: for all task ids i < j within the address range the top of
\* the stack of j is PAGE_SIZE below the bottom of the stack of i, the stack of
\* j lies below the stack of i, and no stack reaches the trampoline page.
C38_EveryPairOneGuardPage ==
    \A i \in Stacked, j \in Stacked :
        i < j => /\ kernel_stack[j].top = kernel_stack[i].bottom - PAGE_SIZE
                 /\ kernel_stack[j].top <= kernel_stack[i].bottom
                 /\ kernel_stack[i].top <= TRAMPOLINE

\* C38 amended: for a task id within the address range neither build panics
\* and the stack is [top - KERNEL_STACK_SIZE, top) with top = TRAMPOLINE -
\* id * (KERNEL_STACK_SIZE + PAGE_SIZE), at or below the trampoline page; for
\* ids i < j within the range the top of the stack of j is at least PAGE_SIZE
\* below the bottom of the stack of i, and exactly PAGE_SIZE below it when and
\* only when j = i + 1.
C38_ConsecutiveOneGuardPage ==
    /\ \A i \in Tasks, overflow_checks \in BOOLEAN :
           InAddressRange(i) =>
               LET r == kernel_stack_position(i, overflow_checks)
               IN /\ r.res = "Ok"
                  /\ r.top = TRAMPOLINE - i * (KERNEL_STACK_SIZE + PAGE_SIZE)
                  /\ r.bottom = r.top - KERNEL_STACK_SIZE
                  /\ 0 <= r.bottom /\ r.top <= TRAMPOLINE
                  /\ kernel_stack[i].some =>
                         kernel_stack[i] = [some |-> TRUE, bottom |-> r.bottom, top |-> r.top]
    /\ \A i \in Stacked, j \in Stacked :
           i < j => /\ kernel_stack[j].top <= kernel_stack[i].bottom - PAGE_SIZE
                    /\ kernel_stack[j].top = kernel_stack[i].bottom - PAGE_SIZE <=> j = i + 1

\* the stacks of three tasks within the address range are computed
C38_Witness ==
    /\ last.op = "kernel_stack_position"
    /\ \E i \in Stacked : i + 1 \in Stacked /\ i + 2 \in Stacked

\* ------------------------------------------------------------ link manager

\* C39: all(name, flags) with CREATE in flags appends the one link
\* (name, "test") to the list, so that the link count open_file reports for
\* the name is one more than the count reported before the call; without
\* CREATE, as in stat, all leaves the list as it was; add with target equal to
\* link returns -1 and leaves the list as it was; and no step of fetch,
\* find_num or find_index changes the list.
C39_LookupAppendsOnCreate ==
    /\ [](\A name \in Names, flags \in OpenFlags :
              /\ "CREATE" \in flags =>
                     /\ all(links, name, flags).links
                            = Append(links, [target |-> name, link |-> "test"])
                     /\ open_file(links, root, name, flags).inode.stat.nlink
                            = all(links, name, {}).nlink + 1
              /\ "CREATE" \notin flags =>
                     /\ all(links, name, flags).links = links
                     /\ open_file(links, root, name, flags).links = links
              /\ add(links, name, name) = [res |-> -1, links |-> links]
              /\ \A inode \in inodes : stat(links, inode).links = links)
    /\ [][last'.op \in {"fetch", "find_num", "find_index"} => links' = links]_vars

====
